---------------------------- MODULE Spec2Model ----------------------------
(***************************************************************************)
(* A model of the column detailer's calculation core:                      *)
(*   - ColumnCalculator (src/column_detailer/column_calculator.py),        *)
(*   - the entity model's stirrup and rebar classes                        *)
(*     (src/column_detailer/entities/stirrup.py, rebar.py),                *)
(*   - DataValidator (src/utils/validation.py),                            *)
(*   - the section calculations of ColumnCalculator and of the             *)
(*     ColumnSection entity (src/column_detailer/entities/column.py),      *)
(*   - the load, validate and draw commands of ColumnDetailerApp           *)
(*     (src/ui/main_window.py) with ColumnDrawingService                   *)
(*     (src/column_detailer/drawing_service.py),                           *)
(*   - the loops of _calculate_stirrups taken one iteration at a time,     *)
(*   - AutoCADManager and DrawingContext                                   *)
(*     (src/column_detailer/autocad_manager.py).                           *)
(*                                                                         *)
(* Numbers.  The Python code computes with floats.  The calculator model   *)
(* computes with exact integers in "ticks": every length handed to the     *)
(* calculator is a whole number of ticks, heights and beam depths are      *)
(* multiples of Scale = 6 ticks and column lengths are multiples of 2, so  *)
(* that the halves (length / 2, beam_depth / 2) and the thirds             *)
(* (net_height / 3) the code takes are exact and \div is the code's "/".    *)
(* Floating-point rounding is outside the model.                           *)
(***************************************************************************)
EXTENDS Integers, Sequences, FiniteSets, TLC

VARIABLES
    pc,           \* position of the run within its specification
    floors,       \* ColumnData.floors: the ordered FloorData records
    settings,     \* ColumnData.settings
    base_point,   \* the insertion point (x, y, z)
    geometry,     \* the ColumnGeometry returned by calculate_column_geometry
    layout,       \* the RebarLayout returned by calculate_rebar_layout
    done,         \* the calls completed so far (specifications of unordered calls)
    stirrups,     \* the list returned by _calculate_stirrups for one floor
    pattern,      \* a StirrupPattern entity
    stirrup_layout, \* a StirrupLayout entity
    lap_diameter, \* the argument of a _calculate_lap_length call
    lap_length,   \* what that call returned
    rebar_layout, \* a RebarLayout entity (rebar.py): main_bars and links
    weight,       \* the outcome of RebarLayout.get_total_weight
    validation,   \* the result of DataValidator.validate_column_data
    section,      \* the outcome of calculate_section_dimensions for one floor
    column_section, \* a ColumnSection entity (column.py)
    calculator,   \* the attributes of the ColumnCalculator instance
    calls,        \* the calculator invocations made so far
    app,          \* the attributes of ColumnDetailerApp
    frame,        \* the locals of the running calculation or draw call
    autocad       \* AutoCADManager, its document and the open DrawingContext

vars == <<pc, floors, settings, base_point, geometry, layout,
          done, stirrups, pattern, stirrup_layout,
          lap_diameter, lap_length, rebar_layout, weight, validation,
          section, column_section, calculator, calls, app, frame, autocad>>

sectionVars == <<section, column_section>>
appVars == <<calculator, calls, app>>
runVars == <<frame, autocad>>

stirrupVars == <<done, stirrups, pattern, stirrup_layout>>
lapVars == <<lap_diameter, lap_length>>
weightVars == <<rebar_layout, weight>>

Scale == 2 * 3

Max(a, b) == IF a >= b THEN a ELSE b

(***************************************************************************)
(* Bounds of the column pipeline.                                          *)
(***************************************************************************)
MaxFloors == 2
MaxHeight == 2

Heights == {Scale * h : h \in 0..MaxHeight}
Lengths == {4, 8}
EdgeSpacings == {2}
MidSpacings == {3}
RebarDiameters == {6 * Scale, 20 * Scale}
AmountsX == {2, 3}
BeamDepths == {0, Scale}

FloorData ==
    [total_height : Heights,
     column_length : Lengths,
     column_width : {4},
     rebar_amount_x : AmountsX,
     rebar_amount_y : {2},
     rebar_diameter : RebarDiameters,
     edge_stirrup_spacing : EdgeSpacings,
     mid_stirrup_spacing : MidSpacings,
     stirrup_diameter : {8 * Scale}]

ColumnSettings == [beam_depth : BeamDepths, concrete_cover : {1}]

Columns == UNION {[1..n -> FloorData] : n \in 0..MaxFloors}

BasePoints == {<<0, 0, 0>>, <<10, -5, 0>>}

(***************************************************************************)
(* ColumnCalculator.calculate_column_geometry                              *)
(***************************************************************************)
RECURSIVE SumSeq(_)
SumSeq(s) == IF s = <<>> THEN 0 ELSE Head(s) + SumSeq(Tail(s))

\* floor_heights = [floor.total_height for floor in floors]
FloorHeights(fs) == [i \in 1..Len(fs) |-> fs[i].total_height]

\* A slip of the level loop: current_height = height instead of += height.
RECURSIVE FloorLevelsLoopAssign(_, _, _)
FloorLevelsLoopAssign(heights, current_height, floor_levels) ==
    IF heights = <<>> THEN floor_levels
    ELSE FloorLevelsLoopAssign(Tail(heights), Head(heights),
                               Append(floor_levels, Head(heights)))

\* for height in floor_heights: current_height += height; append
RECURSIVE FloorLevelsLoop(_, _, _)
FloorLevelsLoop(heights, current_height, floor_levels) ==
    IF heights = <<>> THEN floor_levels
    ELSE FloorLevelsLoop(Tail(heights), current_height + Head(heights),
                         Append(floor_levels, current_height + Head(heights)))

\* A slip of the level list: it starts at 0 instead of base_y.
FloorLevelsFromZero(heights, base_y) == FloorLevelsLoop(heights, 0, <<0>>)

\* floor_levels = [base_y]; current_height = base_y; the loop
FloorLevels(heights, base_y) == FloorLevelsLoop(heights, base_y, <<base_y>>)

\* A slip of the boundaries: every floor takes the first floor's length.
ColumnBoundariesFirstFloor(fs, base_x) ==
    [i \in 1..Len(fs) |->
        <<base_x - (fs[1].column_length \div 2),
          base_x + (fs[1].column_length \div 2)>>]

\* left_x = base_x - floor.column_length / 2, right_x = base_x + ... / 2
ColumnBoundaries(fs, base_x) ==
    [i \in 1..Len(fs) |->
        <<base_x - (fs[i].column_length \div 2),
          base_x + (fs[i].column_length \div 2)>>]

calculate_column_geometry(fs, st, bp) ==
    [base_point |-> bp,
     total_height |-> SumSeq(FloorHeights(fs)),
     floor_heights |-> FloorHeights(fs),
     floor_levels |-> FloorLevels(FloorHeights(fs), bp[2]),
     column_boundaries |-> ColumnBoundaries(fs, bp[1])]

(***************************************************************************)
(* ColumnCalculator._calculate_main_bars.  The spacing division            *)
(* (column_length - 2 * cover) / (rebar_amount_x - 1) is exact for the     *)
(* lengths, cover and bar counts of the model.                             *)
(***************************************************************************)
\* A slip of the spacing: the span is divided by the bar count, not by the
\* number of intervals.
calculate_main_bars_count(floor, boundaries, base_y, height, cover) ==
    LET left_x == boundaries[1]
        right_x == boundaries[2]
        column_length == right_x - left_x
        edge_x_left == left_x + cover
        edge_x_right == right_x - cover
        edge_bars ==
            << <<edge_x_left, base_y, base_y + height, floor.rebar_diameter>>,
               <<edge_x_right, base_y, base_y + height, floor.rebar_diameter>> >>
        spacing == (column_length - 2 * cover) \div floor.rebar_amount_x
    IN  IF floor.rebar_amount_x > 2
        THEN edge_bars \o
             [i \in 1..(floor.rebar_amount_x - 2) |->
                 <<left_x + cover + i * spacing, base_y, base_y + height,
                   floor.rebar_diameter>>]
        ELSE edge_bars

calculate_main_bars(floor, boundaries, base_y, height, cover) ==
    LET left_x == boundaries[1]
        right_x == boundaries[2]
        column_length == right_x - left_x
        edge_x_left == left_x + cover
        edge_x_right == right_x - cover
        edge_bars ==
            << <<edge_x_left, base_y, base_y + height, floor.rebar_diameter>>,
               <<edge_x_right, base_y, base_y + height, floor.rebar_diameter>> >>
        spacing == (column_length - 2 * cover) \div (floor.rebar_amount_x - 1)
    IN  IF floor.rebar_amount_x > 2
        THEN edge_bars \o
             [i \in 1..(floor.rebar_amount_x - 2) |->
                 <<left_x + cover + i * spacing, base_y, base_y + height,
                   floor.rebar_diameter>>]
        ELSE edge_bars

(***************************************************************************)
(* ColumnCalculator._calculate_stirrups.  Each while loop appends          *)
(* (current_y, label, diameter) and adds the spacing while current_y is    *)
(* strictly below the zone's end.  The loops end because every spacing of  *)
(* the model is positive.                                                  *)
(***************************************************************************)
\* A slip of the loop condition: current_y <= zone_end.
RECURSIVE StirrupZoneLoopInclusive(_, _, _, _, _, _)
StirrupZoneLoopInclusive(current_y, zone_end, spacing, label, diameter, acc) ==
    IF current_y <= zone_end
    THEN StirrupZoneLoopInclusive(current_y + spacing, zone_end, spacing, label,
                                  diameter, Append(acc, <<current_y, label, diameter>>))
    ELSE acc

RECURSIVE StirrupZoneLoop(_, _, _, _, _, _)
StirrupZoneLoop(current_y, zone_end, spacing, label, diameter, acc) ==
    IF current_y < zone_end
    THEN StirrupZoneLoop(current_y + spacing, zone_end, spacing, label, diameter,
                         Append(acc, <<current_y, label, diameter>>))
    ELSE acc

\* The stirrups of the bottom third (lines 132-136).
StirrupsBottom(floor, base_y, height, beam_depth) ==
    LET third_height == (height - beam_depth) \div 3
    IN  StirrupZoneLoop(base_y + floor.edge_stirrup_spacing, base_y + third_height,
                        floor.edge_stirrup_spacing, "edge", floor.stirrup_diameter, <<>>)

\* A slip of the middle zone's end: base_y + height instead of 2 * third_height.
StirrupsMiddleToTop(floor, base_y, height, beam_depth) ==
    LET third_height == (height - beam_depth) \div 3
    IN  StirrupZoneLoop(base_y + third_height + floor.mid_stirrup_spacing,
                        base_y + height,
                        floor.mid_stirrup_spacing, "mid", floor.stirrup_diameter, <<>>)

\* The stirrups of the middle third (lines 138-142).
StirrupsMiddle(floor, base_y, height, beam_depth) ==
    LET third_height == (height - beam_depth) \div 3
    IN  StirrupZoneLoop(base_y + third_height + floor.mid_stirrup_spacing,
                        base_y + 2 * third_height,
                        floor.mid_stirrup_spacing, "mid", floor.stirrup_diameter, <<>>)

\* A slip of the top zone's start: the end of the usable height,
\* base_y + 3 * third_height, instead of base_y + 2 * third_height.
StirrupsTopFromNet(floor, base_y, height, beam_depth) ==
    LET third_height == (height - beam_depth) \div 3
    IN  StirrupZoneLoop(base_y + 3 * third_height + floor.edge_stirrup_spacing,
                        base_y + height,
                        floor.edge_stirrup_spacing, "edge", floor.stirrup_diameter, <<>>)

\* The stirrups of the top third, which runs up to base_y + height (lines 144-148).
StirrupsTop(floor, base_y, height, beam_depth) ==
    LET third_height == (height - beam_depth) \div 3
    IN  StirrupZoneLoop(base_y + 2 * third_height + floor.edge_stirrup_spacing,
                        base_y + height,
                        floor.edge_stirrup_spacing, "edge", floor.stirrup_diameter, <<>>)

\* A slip of the order of the zones: top, middle, bottom.
calculate_stirrups_top_first(floor, base_y, height, beam_depth) ==
    StirrupsTop(floor, base_y, height, beam_depth)
        \o StirrupsMiddle(floor, base_y, height, beam_depth)
        \o StirrupsBottom(floor, base_y, height, beam_depth)

calculate_stirrups(floor, base_y, height, beam_depth) ==
    StirrupsBottom(floor, base_y, height, beam_depth)
        \o StirrupsMiddle(floor, base_y, height, beam_depth)
        \o StirrupsTop(floor, base_y, height, beam_depth)

(***************************************************************************)
(* ColumnCalculator._calculate_lap_length: max(40 * bar_diameter, 300),    *)
(* the 300 mm being 300 * Scale ticks.                                     *)
(***************************************************************************)
LapFactor == 40
MinLapLength == 300

\* A slip of the lap length: min instead of max.
calculate_lap_length_min(bar_diameter) ==
    IF LapFactor * bar_diameter <= MinLapLength * Scale
    THEN LapFactor * bar_diameter ELSE MinLapLength * Scale

calculate_lap_length(bar_diameter) ==
    Max(LapFactor * bar_diameter, MinLapLength * Scale)

(***************************************************************************)
(* ColumnCalculator.calculate_rebar_layout: the loop over the floors,      *)
(* with the running current_y.                                             *)
(***************************************************************************)
\* A slip of the lap condition: i <= len(floors) - 1 counted from 1, so the
\* top floor gets a lap as well.
RECURSIVE RebarLayoutLoopTop(_, _, _, _, _, _)
RebarLayoutLoopTop(fs, geom, st, i, current_y, acc) ==
    IF i > Len(fs) THEN acc
    ELSE
        LET floor == fs[i]
            floor_height == floor.total_height
            bars == calculate_main_bars(floor, geom.column_boundaries[i], current_y,
                                        floor_height, st.concrete_cover)
            strps == calculate_stirrups(floor, current_y, floor_height, st.beam_depth)
            laps ==
                << <<current_y + floor_height - (st.beam_depth \div 2),
                     calculate_lap_length(floor.rebar_diameter),
                     floor.rebar_diameter>> >>
        IN  RebarLayoutLoopTop(fs, geom, st, i + 1, current_y + floor_height,
                [main_bars |-> acc.main_bars \o bars,
                 stirrup_positions |-> acc.stirrup_positions \o strps,
                 lap_lengths |-> acc.lap_lengths \o laps])

RECURSIVE RebarLayoutLoop(_, _, _, _, _, _)
RebarLayoutLoop(fs, geom, st, i, current_y, acc) ==
    IF i > Len(fs) THEN acc
    ELSE
        LET floor == fs[i]
            floor_height == floor.total_height
            bars == calculate_main_bars(floor, geom.column_boundaries[i], current_y,
                                        floor_height, st.concrete_cover)
            strps == calculate_stirrups(floor, current_y, floor_height, st.beam_depth)
            laps ==
                IF i < Len(fs)
                THEN << <<current_y + floor_height - (st.beam_depth \div 2),
                          calculate_lap_length(floor.rebar_diameter),
                          floor.rebar_diameter>> >>
                ELSE <<>>
        IN  RebarLayoutLoop(fs, geom, st, i + 1, current_y + floor_height,
                [main_bars |-> acc.main_bars \o bars,
                 stirrup_positions |-> acc.stirrup_positions \o strps,
                 lap_lengths |-> acc.lap_lengths \o laps])

(***************************************************************************)
(* Entity model: RectangularStirrup and StirrupPattern (stirrup.py).       *)
(* A Point3D is <<x, y, z>>.                                               *)
(***************************************************************************)
RectangularStirrup(diameter, elevation, width, height, center_x) ==
    LET left == center_x - (width \div 2)
        right == center_x + (width \div 2)
        bottom == elevation - (height \div 2)
        top == elevation + (height \div 2)
    IN  [diameter |-> diameter,
         elevation |-> elevation,
         positions |-> << <<left, bottom, 0>>, <<right, bottom, 0>>,
                          <<right, top, 0>>, <<left, top, 0>> >>]

\* One while loop of generate_rectangular_pattern: it appends a
\* RectangularStirrup at current_y and adds the spacing.
RECURSIVE PatternZoneLoop(_, _, _, _, _, _, _, _)
PatternZoneLoop(current_y, zone_end, spacing, diameter, width, column_width, center_x, acc) ==
    IF current_y < zone_end
    THEN PatternZoneLoop(current_y + spacing, zone_end, spacing, diameter, width,
                         column_width, center_x,
                         Append(acc, RectangularStirrup(diameter, current_y, width,
                                                        column_width, center_x)))
    ELSE acc

\* StirrupPattern.generate_rectangular_pattern on the pattern self: the new
\* value of self.stirrups (cleared first, then the three zones).
generate_rectangular_pattern(self, start_y, height, beam_depth, width, column_width, center_x) ==
    LET net_height == height - beam_depth
        third_height == net_height \div 3
        bottom ==
            PatternZoneLoop(start_y + self.edge_spacing, start_y + third_height,
                            self.edge_spacing, self.diameter, width, column_width,
                            center_x, <<>>)
        middle ==
            PatternZoneLoop(start_y + third_height + self.mid_spacing,
                            start_y + 2 * third_height,
                            self.mid_spacing, self.diameter, width, column_width,
                            center_x, bottom)
    IN  PatternZoneLoop(start_y + 2 * third_height + self.edge_spacing,
                        start_y + height,
                        self.edge_spacing, self.diameter, width, column_width,
                        center_x, middle)

(***************************************************************************)
(* Entity model: StirrupLayout.calculate_positions (rebar.py).             *)
(***************************************************************************)
RECURSIVE PositionsZoneLoop(_, _, _, _)
PositionsZoneLoop(current_y, zone_end, spacing, acc) ==
    IF current_y < zone_end
    THEN PositionsZoneLoop(current_y + spacing, zone_end, spacing,
                           Append(acc, current_y))
    ELSE acc

\* A slip of the top zone: it ends at the usable height start_y + net_height.
calculate_positions_net(self, start_y, height, beam_depth) ==
    LET net_height == height - beam_depth
        third_height == net_height \div 3
        bottom ==
            PositionsZoneLoop(start_y + self.edge_spacing, start_y + third_height,
                              self.edge_spacing, <<>>)
        middle ==
            PositionsZoneLoop(start_y + third_height + self.mid_spacing,
                              start_y + 2 * third_height, self.mid_spacing, bottom)
    IN  PositionsZoneLoop(start_y + 2 * third_height + self.edge_spacing,
                          start_y + net_height, self.edge_spacing, middle)

\* The new value of self.positions.
calculate_positions(self, start_y, height, beam_depth) ==
    LET net_height == height - beam_depth
        third_height == net_height \div 3
        bottom ==
            PositionsZoneLoop(start_y + self.edge_spacing, start_y + third_height,
                              self.edge_spacing, <<>>)
        middle ==
            PositionsZoneLoop(start_y + third_height + self.mid_spacing,
                              start_y + 2 * third_height, self.mid_spacing, bottom)
    IN  PositionsZoneLoop(start_y + 2 * third_height + self.edge_spacing,
                          start_y + height, self.edge_spacing, middle)

\* StirrupLayout.get_spacing_at_height: net_height is the distance from y
\* up to start_y + height, and the thirds are thirds of the whole height.
get_spacing_at_height(self, y, start_y, height) ==
    LET net_height == height - (y - start_y)
        third_height == height \div 3
    IN  IF net_height <= third_height THEN self.edge_spacing
        ELSE IF net_height <= 2 * third_height THEN self.mid_spacing
        ELSE self.edge_spacing

(***************************************************************************)
(* Entity model: Rebar and RebarLayout (rebar.py), in millimetres.         *)
(***************************************************************************)
\* The largest r with r * r <= n, by bisection: (...) ** 0.5 of Rebar.length,
\* exact for the axis-aligned bars of the model.
RECURSIVE SqrtSearch(_, _, _)
SqrtSearch(n, lo, hi) ==
    IF lo >= hi THEN lo
    ELSE LET mid == (lo + hi + 1) \div 2
         IN  IF mid * mid <= n THEN SqrtSearch(n, mid, hi)
             ELSE SqrtSearch(n, lo, mid - 1)

Rebar_length(bar) ==
    LET dx == bar.end_point[1] - bar.start_point[1]
        dy == bar.end_point[2] - bar.start_point[2]
        dz == bar.end_point[3] - bar.start_point[3]
        n == dx * dx + dy * dy + dz * dz
    IN  SqrtSearch(n, 0, IF n < 40000 THEN n ELSE 40000)

\* rebar.py imports dataclass, List, Tuple and Point3D only: the name math
\* that get_total_weight reads is not bound in the module.
MathBound == FALSE

\* math.pi as the fraction PiNum / PiDen.
PiNum == 355
PiDen == 113

\* The default of the density parameter.
Density == 7850

\* area * bar.length of one bar, area = math.pi * (bar.diameter / 2) ** 2,
\* before the division by 1000.
BarAreaTimesLength(bar) ==
    (PiNum * bar.diameter * bar.diameter * Rebar_length(bar)) \div (PiDen * 4)

RECURSIVE SumAreaTimesLength(_)
SumAreaTimesLength(bars) ==
    IF bars = <<>> THEN 0
    ELSE BarAreaTimesLength(Head(bars)) + SumAreaTimesLength(Tail(bars))

\* RebarLayout.get_total_weight.  The loop body is skipped for an empty
\* layout and 0.0 * density is returned; with a bar in the layout, line 69
\* reads math.pi and raises NameError.  centikg is 100 times the returned
\* number: total_volume * density with volume = area * length / 1000, that
\* is (sum of area * length) * density / 10 (density is a multiple of 10).
get_total_weight(self, density) ==
    LET bars == self.main_bars \o self.links
    IN  IF bars = <<>> THEN [exception |-> "none", centikg |-> 0]
        ELSE IF ~MathBound THEN [exception |-> "NameError", centikg |-> 0]
        ELSE [exception |-> "none",
              centikg |-> SumAreaTimesLength(bars) * (density \div 10)]

(***************************************************************************)
(* DataValidator (validation.py).  The column data are dicts: a dict is a  *)
(* function on the keys it holds, `field in d` is field \in DOMAIN d.      *)
(* Values are numbers in millimetres (None values are not modelled).  An   *)
(* error or warning string is modelled by the record of what it reports:   *)
(* its kind, the 1-based floor number it prints (0 for a settings error)   *)
(* and the values it prints.                                               *)
(***************************************************************************)
Limits ==
    [column_length |-> [min |-> 100, max |-> 5000],
     column_width |-> [min |-> 0, max |-> 5000],
     floor_height |-> [min |-> 2000, max |-> 50000],
     rebar_diameter |-> [min |-> 6, max |-> 50],
     stirrup_diameter |-> [min |-> 6, max |-> 16],
     concrete_cover |-> [min |-> 20, max |-> 100],
     spacing |-> [min |-> 50, max |-> 500]]

is_in_range(value, value_type) ==
    IF value_type \in DOMAIN Limits
    THEN Limits[value_type].min <= value /\ value <= Limits[value_type].max
    ELSE TRUE

Message(kind, floor_number, detail) ==
    [kind |-> kind, floor |-> floor_number, detail |-> detail]

\* for field in required_fields: if field not in d: errors.append(...)
RECURSIVE MissingFieldErrors(_, _, _, _)
MissingFieldErrors(d, fields, kind, floor_number) ==
    IF fields = <<>> THEN <<>>
    ELSE (IF Head(fields) \notin DOMAIN d
          THEN <<Message(kind, floor_number, <<Head(fields)>>)>>
          ELSE <<>>)
         \o MissingFieldErrors(d, Tail(fields), kind, floor_number)

RequiredSettings ==
    <<"beam_depth", "beam_extension", "concrete_cover", "scale",
      "spacing_between_columns">>

validate_settings(st) ==
    MissingFieldErrors(st, RequiredSettings, "missing_setting", 0)
    \o (IF "beam_depth" \in DOMAIN st
        THEN IF ~is_in_range(st.beam_depth, "floor_height")
             THEN <<Message("beam_depth_range", 0, <<st.beam_depth>>)>> ELSE <<>>
        ELSE <<>>)
    \o (IF "concrete_cover" \in DOMAIN st
        THEN IF ~is_in_range(st.concrete_cover, "concrete_cover")
             THEN <<Message("concrete_cover_range", 0, <<st.concrete_cover>>)>> ELSE <<>>
        ELSE <<>>)

\* A slip of the perimeter count: the corners are counted twice.
calculate_expected_rebars_corners(amount_x, amount_y) ==
    IF amount_x > 0 /\ amount_y > 0 THEN 2 * amount_x + 2 * amount_y
    ELSE IF amount_x > 0 /\ amount_y = 0 THEN amount_x
    ELSE 0

calculate_expected_rebars(amount_x, amount_y) ==
    IF amount_x > 0 /\ amount_y > 0 THEN 2 * amount_x + 2 * Max(0, amount_y - 2)
    ELSE IF amount_x > 0 /\ amount_y = 0 THEN amount_x
    ELSE 0

RequiredFloorFields ==
    <<"total_height", "column_length", "floor_name", "rebar_amount",
      "rebar_diameter">>

\* One range check of _validate_floor: if key in floor and the value is out
\* of the range of value_type, the error of that kind.
RangeError(floor, key, value_type, kind, floor_number) ==
    IF key \in DOMAIN floor
    THEN IF ~is_in_range(floor[key], value_type)
         THEN <<Message(kind, floor_number, <<floor[key]>>)>> ELSE <<>>
    ELSE <<>>

validate_floor(floor, floor_index) ==
    MissingFieldErrors(floor, RequiredFloorFields, "missing", floor_index + 1)
    \o RangeError(floor, "total_height", "floor_height", "height_range", floor_index + 1)
    \o RangeError(floor, "column_length", "column_length", "length_range", floor_index + 1)
    \o (IF "column_width" \in DOMAIN floor
        THEN IF floor.column_width > 0
             THEN RangeError(floor, "column_width", "column_width", "width_range",
                             floor_index + 1)
             ELSE <<>>
        ELSE <<>>)
    \o RangeError(floor, "rebar_diameter", "rebar_diameter", "rebar_diameter_range",
                  floor_index + 1)
    \o RangeError(floor, "stirrup_diameter", "stirrup_diameter",
                  "stirrup_diameter_range", floor_index + 1)
    \o (IF {"rebar_amount", "rebar_amount_x", "rebar_amount_y"} \subseteq DOMAIN floor
        THEN LET expected == calculate_expected_rebars(floor.rebar_amount_x,
                                                       floor.rebar_amount_y)
             IN  IF floor.rebar_amount # expected
                 THEN <<Message("rebar_mismatch", floor_index + 1,
                                <<expected, floor.rebar_amount>>)>>
                 ELSE <<>>
        ELSE <<>>)

DefaultCover == 25
TightEdgeSpacing == 75
LooseMidSpacing == 300

check_floor_warnings(floor, floor_index) ==
    (IF {"column_length", "column_width"} \subseteq DOMAIN floor
     THEN LET cover == IF "concrete_cover" \in DOMAIN floor
                       THEN floor.concrete_cover ELSE DefaultCover
          IN  IF cover * 2 >= floor.column_length
              THEN <<Message("cover_too_large", floor_index + 1, <<>>)>> ELSE <<>>
     ELSE <<>>)
    \o (IF {"edge_stirrup_spacing", "mid_stirrup_spacing"} \subseteq DOMAIN floor
        THEN (IF floor.edge_stirrup_spacing < TightEdgeSpacing
              THEN <<Message("edge_spacing_small", floor_index + 1, <<>>)>> ELSE <<>>)
             \o (IF floor.mid_stirrup_spacing > LooseMidSpacing
                 THEN <<Message("mid_spacing_large", floor_index + 1, <<>>)>> ELSE <<>>)
        ELSE <<>>)

\* for i, floor in enumerate(data.get('floors', [])): extend errors, warnings
RECURSIVE ValidateFloorsLoop(_, _, _)
ValidateFloorsLoop(fs, i, acc) ==
    IF i >= Len(fs) THEN acc
    ELSE ValidateFloorsLoop(fs, i + 1,
            [errors |-> acc.errors \o validate_floor(fs[i + 1], i),
             warnings |-> acc.warnings \o check_floor_warnings(fs[i + 1], i)])

\* A slip of the verdict: warnings block as well.
validate_column_data_strict(data) ==
    LET r == ValidateFloorsLoop(data.floors, 0,
                 [errors |-> validate_settings(data.settings), warnings |-> <<>>])
    IN  [is_valid |-> Len(r.errors) = 0 /\ Len(r.warnings) = 0,
         errors |-> r.errors, warnings |-> r.warnings]

validate_column_data(data) ==
    LET r == ValidateFloorsLoop(data.floors, 0,
                 [errors |-> validate_settings(data.settings), warnings |-> <<>>])
    IN  [is_valid |-> Len(r.errors) = 0, errors |-> r.errors, warnings |-> r.warnings]

NoGeometry ==
    [base_point |-> <<0, 0, 0>>, total_height |-> 0, floor_heights |-> <<>>,
     floor_levels |-> <<>>, column_boundaries |-> <<>>]

NoLayout == [main_bars |-> <<>>, stirrup_positions |-> <<>>, lap_lengths |-> <<>>]

\* A slip of the running Y: it starts at 0 instead of geometry.base_point[1].
calculate_rebar_layout_origin(fs, geom, st) ==
    RebarLayoutLoop(fs, geom, st, 1, 0, NoLayout)

\* current_y = geometry.base_point[1] (line 69), then the loop over the floors.
calculate_rebar_layout(fs, geom, st) ==
    RebarLayoutLoop(fs, geom, st, 1, geom.base_point[2], NoLayout)

NoPattern == [diameter |-> 0, edge_spacing |-> 0, mid_spacing |-> 0, stirrups |-> <<>>]

NoStirrupLayout == [diameter |-> 0, edge_spacing |-> 0, mid_spacing |-> 0, positions |-> <<>>]

NoRebarLayout == [main_bars |-> <<>>, links |-> <<>>]

NoWeight == [exception |-> "none", centikg |-> 0]

NoValidation == [is_valid |-> TRUE, errors |-> <<>>, warnings |-> <<>>]

NoSection ==
    [exception |-> "none", length |-> 0, width |-> 0, scale |-> 0,
     rebar_positions |-> <<>>, is_circular |-> FALSE]

\* ColumnFloor.__init__: lengths 0.0 and reinforcement None.
NoColumnFloor == [length |-> 0, width |-> 0, reinforcement |-> [is_none |-> TRUE]]

\* ColumnSection.__init__: self.rebar_positions = [].
NoColumnSection == [floor |-> NoColumnFloor, exception |-> "none", rebar_positions |-> <<>>]

\* ColumnCalculator.__init__: self.rebar_clearance = 25.0.
ColumnCalculator == [rebar_clearance |-> 25 * Scale]

\* ColumnDetailerApp.__init__: column_data is None (the empty sequence),
\* nothing has been shown yet; connected is autocad_manager._connected and
\* validation_results what _update_preview_tabs was last given.
NoApp ==
    [column_data |-> <<>>, connected |-> FALSE, validation_results |-> <<>>,
     message |-> "none"]

\* No calculate_rebar_layout call is running.
NoFrame == [i |-> 0, floor_y |-> 0, current_y |-> 0]

\* AutoCADManager.__init__: no application, no document, not connected.
\* DrawingContext.__init__: self.original_layer = None, here the empty
\* name, which `if self.original_layer` (line 115) treats alike.
NoContext == [layer |-> "0", original_layer |-> ""]

\* AutoCADManager.__init__: not connected.  active_layer and layers are the
\* document's ActiveLayer.Name and the names in its Layers collection,
\* sections the number of _draw_single_section calls of the command of the
\* application that ran last.
NoAutoCAD ==
    [connected |-> FALSE, active_layer |-> "0", layers |-> {"0"},
     context |-> NoContext, sections |-> 0]

IdleRun ==
    /\ frame = NoFrame
    /\ autocad = NoAutoCAD

IdleSection ==
    /\ section = NoSection
    /\ column_section = NoColumnSection

IdleApp ==
    /\ calculator = ColumnCalculator
    /\ calls = {}
    /\ app = NoApp

(***************************************************************************)
(* The column pipeline: draw_column_elevation computes the geometry and    *)
(* then the rebar layout of one loaded column.                             *)
(***************************************************************************)
Init ==
    /\ pc = "loaded"
    /\ floors \in Columns
    /\ settings \in ColumnSettings
    /\ base_point \in BasePoints
    /\ geometry = NoGeometry
    /\ layout = NoLayout
    /\ done = {}
    /\ stirrups = <<>>
    /\ pattern = NoPattern
    /\ stirrup_layout = NoStirrupLayout
    /\ lap_diameter = 0
    /\ lap_length = 0
    /\ rebar_layout = NoRebarLayout
    /\ weight = NoWeight
    /\ validation = NoValidation
    /\ IdleRun
    /\ IdleSection
    /\ IdleApp

CalculateColumnGeometry ==
    /\ pc = "loaded"
    /\ geometry' = calculate_column_geometry(floors, settings, base_point)
    /\ pc' = "geometry"
    /\ UNCHANGED <<runVars, sectionVars, appVars, floors, settings, base_point, layout, stirrupVars, lapVars,
                   weightVars, validation>>

CalculateRebarLayout ==
    /\ pc = "geometry"
    /\ layout' = calculate_rebar_layout(floors, geometry, settings)
    /\ pc' = "layout"
    /\ UNCHANGED <<runVars, sectionVars, appVars, floors, settings, base_point, geometry, stirrupVars, lapVars,
                   weightVars, validation>>

Next == CalculateColumnGeometry \/ CalculateRebarLayout

Spec == Init /\ [][Next]_vars

(***************************************************************************)
(* The stirrup calls on one floor.  The calculator's _calculate_stirrups   *)
(* and the two entity implementations are applied, in any order, to the    *)
(* same (start_y, height, beam_depth, edge spacing, mid spacing); the      *)
(* entities' spacing attributes are set to the floor's spacings.           *)
(* floors is the one-floor list, settings.beam_depth the beam depth and    *)
(* base_point[2] the floor's base.                                         *)
(***************************************************************************)
MaxFloorHeight == 3
MaxBeamDepth == 4
MaxEdge == 3
MaxMid == 3

StirrupFloors ==
    [total_height : {Scale * h : h \in 0..MaxFloorHeight},
     column_length : {4},
     column_width : {4},
     rebar_amount_x : {2},
     rebar_amount_y : {2},
     rebar_diameter : {20 * Scale},
     edge_stirrup_spacing : 1..MaxEdge,
     mid_stirrup_spacing : 1..MaxMid,
     stirrup_diameter : {8 * Scale}]

\* The scenario of the specification: height 3000, edge spacing 100, mid
\* spacing 150, stirrup diameter 8, beam depth 500, base (0, 0, 0).
ScenarioFloor ==
    [total_height |-> 3000 * Scale,
     column_length |-> 400 * Scale,
     column_width |-> 400 * Scale,
     rebar_amount_x |-> 4,
     rebar_amount_y |-> 4,
     rebar_diameter |-> 20 * Scale,
     edge_stirrup_spacing |-> 100 * Scale,
     mid_stirrup_spacing |-> 150 * Scale,
     stirrup_diameter |-> 8 * Scale]

ScenarioSettings == [beam_depth |-> 500 * Scale, concrete_cover |-> 25 * Scale]

InitFloor ==
    /\ pc = "floor"
    /\ \/ /\ floors \in {<<f>> : f \in StirrupFloors}
          /\ settings \in [beam_depth : {Scale * b : b \in 0..MaxBeamDepth},
                           concrete_cover : {1}]
          /\ base_point \in {<<0, 0, 0>>, <<0, 7, 0>>}
       \/ /\ floors = <<ScenarioFloor>>
          /\ settings = ScenarioSettings
          /\ base_point = <<0, 0, 0>>
    /\ geometry = NoGeometry
    /\ layout = NoLayout
    /\ done = {}
    /\ stirrups = <<>>
    /\ pattern = [diameter |-> floors[1].stirrup_diameter,
                  edge_spacing |-> floors[1].edge_stirrup_spacing,
                  mid_spacing |-> floors[1].mid_stirrup_spacing,
                  stirrups |-> <<>>]
    /\ stirrup_layout = [diameter |-> floors[1].stirrup_diameter,
                         edge_spacing |-> floors[1].edge_stirrup_spacing,
                         mid_spacing |-> floors[1].mid_stirrup_spacing,
                         positions |-> <<>>]
    /\ lap_diameter = 0
    /\ lap_length = 0
    /\ rebar_layout = NoRebarLayout
    /\ weight = NoWeight
    /\ validation = NoValidation
    /\ IdleRun
    /\ IdleSection
    /\ IdleApp

FloorCalculateStirrups ==
    /\ pc = "floor"
    /\ "calculate_stirrups" \notin done
    /\ stirrups' = calculate_stirrups(floors[1], base_point[2],
                                      floors[1].total_height, settings.beam_depth)
    /\ done' = done \cup {"calculate_stirrups"}
    /\ UNCHANGED <<runVars, sectionVars, appVars, pc, floors, settings, base_point, geometry, layout,
                   pattern, stirrup_layout, lapVars, weightVars, validation>>

FloorGeneratePattern ==
    /\ pc = "floor"
    /\ "generate_rectangular_pattern" \notin done
    /\ pattern' =
          [pattern EXCEPT !.stirrups =
              generate_rectangular_pattern(pattern, base_point[2],
                  floors[1].total_height, settings.beam_depth,
                  floors[1].column_length, floors[1].column_width, base_point[1])]
    /\ done' = done \cup {"generate_rectangular_pattern"}
    /\ UNCHANGED <<runVars, sectionVars, appVars, pc, floors, settings, base_point, geometry, layout,
                   stirrups, stirrup_layout, lapVars, weightVars, validation>>

FloorCalculatePositions ==
    /\ pc = "floor"
    /\ "calculate_positions" \notin done
    /\ stirrup_layout' =
          [stirrup_layout EXCEPT !.positions =
              calculate_positions(stirrup_layout, base_point[2],
                  floors[1].total_height, settings.beam_depth)]
    /\ done' = done \cup {"calculate_positions"}
    /\ UNCHANGED <<runVars, sectionVars, appVars, pc, floors, settings, base_point, geometry, layout,
                   stirrups, pattern, lapVars, weightVars, validation>>

NextFloor == FloorCalculateStirrups \/ FloorGeneratePattern \/ FloorCalculatePositions

SpecFloor == InitFloor /\ [][NextFloor]_vars

(***************************************************************************)
(* A call of _calculate_lap_length on a bar diameter, in ticks: the        *)
(* diameters run from below zero, in sixths of a millimetre.               *)
(***************************************************************************)
MaxDiameter == 25

LapDiameters == (-Scale)..(MaxDiameter * Scale)

IdleColumn ==
    /\ floors = <<>>
    /\ settings = [beam_depth |-> 0, concrete_cover |-> 0]
    /\ base_point = <<0, 0, 0>>
    /\ geometry = NoGeometry
    /\ layout = NoLayout
    /\ stirrups = <<>>
    /\ pattern = NoPattern
    /\ stirrup_layout = NoStirrupLayout

InitLap ==
    /\ pc = "lap"
    /\ IdleColumn
    /\ done = {}
    /\ lap_diameter \in LapDiameters
    /\ lap_length = 0
    /\ rebar_layout = NoRebarLayout
    /\ weight = NoWeight
    /\ validation = NoValidation
    /\ IdleRun
    /\ IdleSection
    /\ IdleApp

CalculateLapLength ==
    /\ pc = "lap"
    /\ done = {}
    /\ lap_length' = calculate_lap_length(lap_diameter)
    /\ done' = {"calculate_lap_length"}
    /\ UNCHANGED <<runVars, sectionVars, appVars, pc, floors, settings, base_point, geometry, layout, stirrups,
                   pattern, stirrup_layout, lap_diameter, weightVars, validation>>

NextLap == CalculateLapLength

SpecLap == InitLap /\ [][NextLap]_vars

(***************************************************************************)
(* A RebarLayout entity: bars are added as main bars or links, then        *)
(* get_total_weight is called with the default density.                    *)
(***************************************************************************)
MaxBars == 2
MaxBarMetres == 3

Rebars ==
    {[diameter |-> d, start_point |-> <<0, 0, 0>>, end_point |-> <<0, 1000 * m, 0>>,
      grade |-> "500"] : d \in {8, 20}, m \in 1..MaxBarMetres}
    \cup {[diameter |-> 8, start_point |-> <<0, 0, 0>>, end_point |-> <<300, 0, 0>>,
           grade |-> "500"]}

InitWeight ==
    /\ pc = "weight"
    /\ IdleColumn
    /\ done = {}
    /\ lap_diameter = 0
    /\ lap_length = 0
    /\ rebar_layout = NoRebarLayout
    /\ weight = NoWeight
    /\ validation = NoValidation
    /\ IdleRun
    /\ IdleSection
    /\ IdleApp

add_main_bar ==
    /\ pc = "weight"
    /\ done = {}
    /\ Len(rebar_layout.main_bars) + Len(rebar_layout.links) < MaxBars
    /\ \E rebar \in Rebars :
          rebar_layout' = [rebar_layout EXCEPT !.main_bars = Append(@, rebar)]
    /\ UNCHANGED <<runVars, sectionVars, appVars, pc, floors, settings, base_point, geometry, layout, stirrupVars,
                   lapVars, weight, validation>>

add_link ==
    /\ pc = "weight"
    /\ done = {}
    /\ Len(rebar_layout.main_bars) + Len(rebar_layout.links) < MaxBars
    /\ \E rebar \in Rebars :
          rebar_layout' = [rebar_layout EXCEPT !.links = Append(@, rebar)]
    /\ UNCHANGED <<runVars, sectionVars, appVars, pc, floors, settings, base_point, geometry, layout, stirrupVars,
                   lapVars, weight, validation>>

GetTotalWeight ==
    /\ pc = "weight"
    /\ done = {}
    /\ weight' = get_total_weight(rebar_layout, Density)
    /\ done' = {"get_total_weight"}
    /\ UNCHANGED <<runVars, sectionVars, appVars, pc, floors, settings, base_point, geometry, layout, stirrups,
                   pattern, stirrup_layout, lapVars, rebar_layout, validation>>

NextWeight == add_main_bar \/ add_link \/ GetTotalWeight

SpecWeight == InitWeight /\ [][NextWeight]_vars

(***************************************************************************)
(* A call of validate_column_data on the dicts of one column: floors is    *)
(* the list of floor dicts and settings the settings dict.                 *)
(***************************************************************************)
MaxAmount == 8
MaxBarsXY == 3

SettingsDict(beam_depth, cover) ==
    [beam_depth |-> beam_depth, beam_extension |-> 200, concrete_cover |-> cover,
     scale |-> 1, spacing_between_columns |-> 1000]

Without(d, key) == [k \in (DOMAIN d) \ {key} |-> d[k]]

SettingsDicts ==
    {SettingsDict(bd, c) : bd \in {500, 2500}, c \in {10, 25}}
    \cup {Without(SettingsDict(2500, 25), "scale")}
    \cup {SettingsDict(2500, 100), SettingsDict(2500, 101)}

FloorDict(h, a, x, y, e) ==
    [total_height |-> h, column_length |-> 400, column_width |-> 400,
     floor_name |-> "F", rebar_amount |-> a, rebar_amount_x |-> x,
     rebar_amount_y |-> y, rebar_diameter |-> 20, stirrup_diameter |-> 8,
     edge_stirrup_spacing |-> e, mid_stirrup_spacing |-> 150]

\* The validation scenario of the specification: 10 bars for a 4 x 4 grid.
ScenarioFloorDict == FloorDict(3000, 10, 4, 4, 100)

RichFloorDicts ==
    {FloorDict(h, a, x, y, e) :
        h \in {1000, 3000}, a \in 0..MaxAmount, x \in (-1)..MaxBarsXY,
        y \in (-1)..MaxBarsXY, e \in {50, 100}}
    \cup {Without(FloorDict(3000, a, x, 2, 100), "rebar_amount_y") :
            a \in 0..MaxAmount, x \in (-1)..MaxBarsXY}
    \cup {Without(FloorDict(3000, 4, x, y, 100), "rebar_amount") :
            x \in (-1)..MaxBarsXY, y \in (-1)..MaxBarsXY}
    \cup {ScenarioFloorDict}

SmallFloorDicts ==
    {FloorDict(h, a, 2, 2, e) : h \in {1000, 3000}, a \in {4, 5}, e \in {50, 100}}

\* A floor dict all of whose values are in range and whose bar counts agree.
SoundFloorDict == FloorDict(3000, 4, 2, 2, 100)

\* One value of the sound floor dict moved to, or across, an end of its range
\* in the limits table.
RangeFloorDicts ==
    {[SoundFloorDict EXCEPT !.total_height = v] : v \in {1999, 2000, 50000, 50001}}
    \cup {[SoundFloorDict EXCEPT !.column_length = v] : v \in {99, 100, 150, 5000, 5001}}
    \cup {[SoundFloorDict EXCEPT !.column_width = v] : v \in {-100, -1, 0, 5000, 5001}}
    \cup {[SoundFloorDict EXCEPT !.rebar_diameter = v] : v \in {5, 6, 50, 51}}
    \cup {[SoundFloorDict EXCEPT !.stirrup_diameter = v] : v \in {5, 6, 16, 17}}
    \cup {[SoundFloorDict EXCEPT !.edge_stirrup_spacing = v] : v \in {10, 49, 74, 75, 500, 501}}
    \cup {[SoundFloorDict EXCEPT !.mid_stirrup_spacing = v] : v \in {49, 50, 300, 301, 500, 501}}

\* The sound floor dict with a key added or taken away.
WithKey(d, key, value) == [k \in (DOMAIN d) \cup {key} |-> IF k = key THEN value ELSE d[k]]

SparseFloorDicts ==
    {Without([SoundFloorDict EXCEPT !.column_length = v], "column_width") : v \in {40, 150}}
    \cup {Without([SoundFloorDict EXCEPT !.edge_stirrup_spacing = v], "mid_stirrup_spacing") :
            v \in {60, 100}}
    \cup {Without([SoundFloorDict EXCEPT !.mid_stirrup_spacing = v], "edge_stirrup_spacing") :
            v \in {150, 400}}
    \cup {WithKey(SoundFloorDict, "concrete_cover", v) : v \in {25, 200}}

ColumnDicts ==
    {<<>>} \cup {<<f>> : f \in RichFloorDicts}
    \cup {<<f, g>> : f \in SmallFloorDicts, g \in SmallFloorDicts}
    \cup {<<f>> : f \in RangeFloorDicts \cup SparseFloorDicts}
    \cup {<<SoundFloorDict, f>> : f \in RangeFloorDicts \cup SparseFloorDicts}

InitValid ==
    /\ pc = "validate"
    /\ floors \in ColumnDicts
    /\ settings \in SettingsDicts
    /\ base_point = <<0, 0, 0>>
    /\ geometry = NoGeometry
    /\ layout = NoLayout
    /\ done = {}
    /\ stirrups = <<>>
    /\ pattern = NoPattern
    /\ stirrup_layout = NoStirrupLayout
    /\ lap_diameter = 0
    /\ lap_length = 0
    /\ rebar_layout = NoRebarLayout
    /\ weight = NoWeight
    /\ validation = NoValidation
    /\ IdleRun
    /\ IdleSection
    /\ IdleApp

ValidateColumnData ==
    /\ pc = "validate"
    /\ done = {}
    /\ validation' = validate_column_data([settings |-> settings, floors |-> floors])
    /\ done' = {"validate_column_data"}
    /\ UNCHANGED <<runVars, sectionVars, appVars, pc, floors, settings, base_point, geometry, layout, stirrups,
                   pattern, stirrup_layout, lapVars, weightVars>>

NextValid == ValidateColumnData

SpecValid == InitValid /\ [][NextValid]_vars

(***************************************************************************)
(* ColumnCalculator.calculate_section_dimensions and                       *)
(* _calculate_section_rebar_positions, in ticks.  A division by zero       *)
(* raises ZeroDivisionError and nothing is returned.  The angles of the    *)
(* circular arrangement are whole quarter turns for the bar counts 1, 2    *)
(* and 4 of the model, where the cosine and the sine are 0, 1 or -1.       *)
(***************************************************************************)
\* cover = 25.0  # Default cover
SectionCover == 25

\* A slip of the row count: range(rebar_amount_y - 1).
RectangularSectionPositionsShort(floor, length, width, cover) ==
    LET x_spacing == (length - 2 * cover) \div (floor.rebar_amount_x - 1)
        y_spacing == (width - 2 * cover) \div (floor.rebar_amount_y - 1)
        nx == Max(floor.rebar_amount_x, 0)
        ny == Max(floor.rebar_amount_y - 1, 0)
    IN  [k \in 1..(nx * ny) |->
            <<cover + ((k - 1) \div ny) * x_spacing,
              cover + ((k - 1) % ny) * y_spacing>>]

\* The nested loops of lines 182-186: i runs over range(rebar_amount_x), j
\* over range(rebar_amount_y), and position k of the list is that of the
\* pair i = (k - 1) div ny, j = (k - 1) mod ny.
RectangularSectionPositions(floor, length, width, cover) ==
    LET x_spacing == (length - 2 * cover) \div (floor.rebar_amount_x - 1)
        y_spacing == (width - 2 * cover) \div (floor.rebar_amount_y - 1)
        nx == Max(floor.rebar_amount_x, 0)
        ny == Max(floor.rebar_amount_y, 0)
    IN  [k \in 1..(nx * ny) |->
            <<cover + ((k - 1) \div ny) * x_spacing,
              cover + ((k - 1) % ny) * y_spacing>>]

\* math.cos and math.sin of i * (2 * math.pi / n).
CosTurn(i, n) ==
    LET quarter == ((4 * i) \div n) % 4
    IN  IF quarter = 0 THEN 1 ELSE IF quarter = 2 THEN -1 ELSE 0

SinTurn(i, n) ==
    LET quarter == ((4 * i) \div n) % 4
    IN  IF quarter = 1 THEN 1 ELSE IF quarter = 3 THEN -1 ELSE 0

\* The loop of lines 189-196.
CircularSectionPositions(floor, length, cover) ==
    LET radius == (length \div 2) - cover
        n == floor.rebar_amount_x
    IN  [k \in 1..Max(n, 0) |->
            <<(length \div 2) + radius * CosTurn(k - 1, n),
              (length \div 2) + radius * SinTurn(k - 1, n)>>]

\* [exception, positions]: line 179 or 180 divides by zero when a count is
\* 1, line 190 when rebar_amount_x is 0.
calculate_section_rebar_positions(floor) ==
    LET length == floor.column_length
        width == IF floor.column_width > 0 THEN floor.column_width ELSE length
        cover == SectionCover * Scale
    IN  IF floor.column_width > 0
        THEN IF floor.rebar_amount_x = 1 \/ floor.rebar_amount_y = 1
             THEN [exception |-> "ZeroDivisionError", positions |-> <<>>]
             ELSE [exception |-> "none",
                   positions |-> RectangularSectionPositions(floor, length, width, cover)]
        ELSE IF floor.rebar_amount_x = 0
             THEN [exception |-> "ZeroDivisionError", positions |-> <<>>]
             ELSE [exception |-> "none",
                   positions |-> CircularSectionPositions(floor, length, cover)]

calculate_section_dimensions(floor, scale) ==
    LET length == floor.column_length
        width == IF floor.column_width > 0 THEN floor.column_width ELSE length
        positions == calculate_section_rebar_positions(floor)
    IN  IF positions.exception # "none"
        THEN [NoSection EXCEPT !.exception = positions.exception]
        ELSE [exception |-> "none", length |-> length, width |-> width,
              scale |-> scale, rebar_positions |-> positions.positions,
              is_circular |-> floor.column_width = 0]

(***************************************************************************)
(* Entity model: ColumnSection.calculate_rebar_positions (column.py), in   *)
(* ticks.  self.floor is a ColumnFloor: its length and width and its       *)
(* reinforcement, None (is_none) or the main_bars_x, main_bars_y and       *)
(* main_bars_count of a RebarLayout.  A Point3D is <<x, y, z>>.            *)
(***************************************************************************)
\* The pairs (i, j) of the nested loops, in the order of the loops.
GridPairs(x_count, y_count) ==
    [k \in 1..(x_count * y_count) |-> <<(k - 1) \div y_count, (k - 1) % y_count>>]

\* A slip of the skip: every pair that is not on the outer ring is skipped
\* as well.
RECURSIVE SelectPairsRing(_, _, _)
SelectPairsRing(pairs, x_count, y_count) ==
    IF pairs = <<>> THEN <<>>
    ELSE LET i == Head(pairs)[1]
             j == Head(pairs)[2]
             corner == (i = 0 \/ i = x_count - 1) /\ (j = 0 \/ j = y_count - 1)
             ring == i = 0 \/ i = x_count - 1 \/ j = 0 \/ j = y_count - 1
         IN  (IF corner \/ ~ring THEN <<>> ELSE <<Head(pairs)>>)
             \o SelectPairsRing(Tail(pairs), x_count, y_count)

\* The skip of lines 160-161: the four corner pairs are left out.
RECURSIVE SelectPairs(_, _, _)
SelectPairs(pairs, x_count, y_count) ==
    IF pairs = <<>> THEN <<>>
    ELSE LET i == Head(pairs)[1]
             j == Head(pairs)[2]
         IN  (IF (i = 0 \/ i = x_count - 1) /\ (j = 0 \/ j = y_count - 1)
              THEN <<>> ELSE <<Head(pairs)>>)
             \o SelectPairs(Tail(pairs), x_count, y_count)

\* [exception, rebar_positions] after _calculate_rectangular_positions.
calculate_rectangular_positions(floor, cover) ==
    IF floor.reinforcement.is_none
    THEN [exception |-> "none", rebar_positions |-> <<>>]
    ELSE
        LET x_count == floor.reinforcement.main_bars_x
            y_count == floor.reinforcement.main_bars_y
            x_spacing == (floor.length - 2 * cover) \div (x_count - 1)
            y_spacing == (floor.width - 2 * cover) \div (y_count - 1)
            kept == SelectPairs(GridPairs(x_count, y_count), x_count, y_count)
        IN  IF x_count > 0 /\ y_count > 0
            THEN IF x_count = 1 \/ y_count = 1
                 THEN [exception |-> "ZeroDivisionError", rebar_positions |-> <<>>]
                 ELSE [exception |-> "none",
                       rebar_positions |->
                           [k \in 1..Len(kept) |->
                               <<cover + kept[k][1] * x_spacing,
                                 cover + kept[k][2] * y_spacing, 0>>]]
            ELSE [exception |-> "none", rebar_positions |-> <<>>]

\* _calculate_circular_positions; it is reached with floor.width = 0, so
\* center_y is center_x.
calculate_circular_positions(floor, cover) ==
    IF floor.reinforcement.is_none
    THEN [exception |-> "none", rebar_positions |-> <<>>]
    ELSE
        LET radius == (floor.length \div 2) - cover
            center_x == floor.length \div 2
            center_y == IF floor.width > 0 THEN floor.width \div 2 ELSE center_x
            n == floor.reinforcement.main_bars_count
        IN  IF n = 0
            THEN [exception |-> "ZeroDivisionError", rebar_positions |-> <<>>]
            ELSE [exception |-> "none",
                  rebar_positions |->
                      [k \in 1..n |->
                          <<center_x + radius * CosTurn(k - 1, n),
                            center_y + radius * SinTurn(k - 1, n), 0>>]]

\* ColumnFloor.is_circular
ColumnFloor_is_circular(floor) == floor.width = 0

\* ColumnSection.calculate_rebar_positions: self.rebar_positions is emptied,
\* then filled by one of the two layouts.
calculate_rebar_positions(self, cover) ==
    LET r == IF ColumnFloor_is_circular(self.floor)
             THEN calculate_circular_positions(self.floor, cover)
             ELSE calculate_rectangular_positions(self.floor, cover)
    IN  [self EXCEPT !.exception = r.exception, !.rebar_positions = r.rebar_positions]

(***************************************************************************)
(* The section calls on one floor: calculate_section_dimensions of the     *)
(* calculator and calculate_rebar_positions of a ColumnSection entity      *)
(* whose ColumnFloor carries the same length, width and bar counts.        *)
(* floors is the one-floor list and settings.section_scale the scale.      *)
(***************************************************************************)
MaxSectionBars == 3

\* Bar counts whose angles are whole quarter turns, and the counts below 1.
CircularAmounts == {-1, 0, 1, 2, 4}

SectionFloors ==
    [total_height : {3000 * Scale},
     column_length : {200 * Scale, 400 * Scale},
     column_width : {300 * Scale, 30 * Scale, -100 * Scale},
     rebar_amount : {0, 4},
     rebar_amount_x : (-1)..MaxSectionBars,
     rebar_amount_y : (-1)..MaxSectionBars,
     rebar_diameter : {20 * Scale},
     edge_stirrup_spacing : {100 * Scale},
     mid_stirrup_spacing : {150 * Scale},
     stirrup_diameter : {8 * Scale}]
    \cup
    [total_height : {3000 * Scale},
     column_length : {200 * Scale, 400 * Scale},
     column_width : {0, 300 * Scale, -100 * Scale},
     rebar_amount : {0, 4},
     rebar_amount_x : CircularAmounts,
     rebar_amount_y : {0, 2},
     rebar_diameter : {20 * Scale},
     edge_stirrup_spacing : {100 * Scale},
     mid_stirrup_spacing : {150 * Scale},
     stirrup_diameter : {8 * Scale}]

\* The ColumnFloor entity of a floor record.
ColumnFloorOf(f, reinforced) ==
    [length |-> f.column_length,
     width |-> f.column_width,
     reinforcement |->
        IF reinforced
        THEN [is_none |-> FALSE, main_bars_x |-> f.rebar_amount_x,
              main_bars_y |-> f.rebar_amount_y, main_bars_count |-> f.rebar_amount]
        ELSE [is_none |-> TRUE]]

InitSection ==
    /\ pc = "section"
    /\ floors \in {<<f>> : f \in SectionFloors}
    /\ settings \in [beam_depth : {0}, concrete_cover : {SectionCover * Scale},
                     section_scale : {1, 2}]
    /\ base_point = <<0, 0, 0>>
    /\ geometry = NoGeometry
    /\ layout = NoLayout
    /\ done = {}
    /\ stirrups = <<>>
    /\ pattern = NoPattern
    /\ stirrup_layout = NoStirrupLayout
    /\ lap_diameter = 0
    /\ lap_length = 0
    /\ rebar_layout = NoRebarLayout
    /\ weight = NoWeight
    /\ validation = NoValidation
    /\ IdleRun
    /\ section = NoSection
    /\ \E reinforced \in BOOLEAN :
          column_section = [NoColumnSection EXCEPT
                               !.floor = ColumnFloorOf(floors[1], reinforced)]
    /\ IdleApp

CalculateSectionDimensions ==
    /\ pc = "section"
    /\ "calculate_section_dimensions" \notin done
    /\ section' = calculate_section_dimensions(floors[1], settings.section_scale)
    /\ done' = done \cup {"calculate_section_dimensions"}
    /\ UNCHANGED <<runVars, pc, floors, settings, base_point, geometry, layout, stirrups,
                   pattern, stirrup_layout, lapVars, weightVars, validation,
                   column_section, appVars>>

SectionCalculateRebarPositions ==
    /\ pc = "section"
    /\ "calculate_rebar_positions" \notin done
    /\ column_section' = calculate_rebar_positions(column_section, settings.concrete_cover)
    /\ done' = done \cup {"calculate_rebar_positions"}
    /\ UNCHANGED <<runVars, pc, floors, settings, base_point, geometry, layout, stirrups,
                   pattern, stirrup_layout, lapVars, weightVars, validation,
                   section, appVars>>

NextSection == CalculateSectionDimensions \/ SectionCalculateRebarPositions

SpecSection == InitSection /\ [][NextSection]_vars

(***************************************************************************)
(* The column pipeline on two further families of columns: one floor with  *)
(* every bar count and cover (the main bars), and up to MaxLapFloors       *)
(* floors of differing heights and bar diameters (the laps).  Lengths and  *)
(* covers are multiples of 6 and 12 ticks, so the spacing division of      *)
(* _calculate_main_bars is exact.                                          *)
(***************************************************************************)
MaxBarsX == 4
MaxLapFloors == 3

BarFloors ==
    [total_height : {Scale},
     column_length : {24, 48},
     column_width : {24},
     rebar_amount_x : 0..MaxBarsX,
     rebar_amount_y : {2},
     rebar_diameter : {20 * Scale},
     edge_stirrup_spacing : {2},
     mid_stirrup_spacing : {3},
     stirrup_diameter : {8 * Scale}]

BarSettings == [beam_depth : {0}, concrete_cover : {6, 12, 18}]

LapFloors ==
    [total_height : {Scale, 2 * Scale},
     column_length : {24},
     column_width : {24},
     rebar_amount_x : {2},
     rebar_amount_y : {2},
     rebar_diameter : {6 * Scale, 20 * Scale},
     edge_stirrup_spacing : {2},
     mid_stirrup_spacing : {3},
     stirrup_diameter : {8 * Scale}]

LapSettings == [beam_depth : {0, Scale, 4 * Scale}, concrete_cover : {6}]

LapColumns == UNION {[1..n -> LapFloors] : n \in 0..MaxLapFloors}

InitDetail ==
    /\ pc = "loaded"
    /\ \/ /\ floors \in {<<f>> : f \in BarFloors}
          /\ settings \in BarSettings
       \/ /\ floors \in LapColumns
          /\ settings \in LapSettings
    /\ base_point \in BasePoints
    /\ geometry = NoGeometry
    /\ layout = NoLayout
    /\ done = {}
    /\ stirrups = <<>>
    /\ pattern = NoPattern
    /\ stirrup_layout = NoStirrupLayout
    /\ lap_diameter = 0
    /\ lap_length = 0
    /\ rebar_layout = NoRebarLayout
    /\ weight = NoWeight
    /\ validation = NoValidation
    /\ IdleRun
    /\ IdleSection
    /\ IdleApp

NextDetail == CalculateColumnGeometry \/ CalculateRebarLayout

SpecDetail == InitDetail /\ [][NextDetail]_vars

(***************************************************************************)
(* The application (main_window.py): the Load Data, Validate Data, Draw    *)
(* Elevations and Draw Sections commands, in any order.  The columns are   *)
(* the dataclass instances ExcelColumnReader builds: a record with a class *)
(* entry; a dict has none.  calls holds one record per calculator          *)
(* invocation: the method, the column, the insertion point or floor index  *)
(* it was given, and whether a validation of that column had completed     *)
(* with is_valid = true when the call was made.  What AutoCAD draws is     *)
(* outside the model; whether a draw succeeds is a free choice.            *)
(***************************************************************************)
MaxAppColumns == 2

IsDict(obj) == "class" \notin DOMAIN obj

\* validate_column_data as _load_excel_data and _validate_data call it, on
\* {'settings': data.settings, 'floors': data.floors}: `field not in
\* settings` (line 159) and `field not in floor` (line 183) raise TypeError
\* for an object that is not a container.
validate_column_data_call(data) ==
    IF ~IsDict(data.settings) \/ (\E i \in 1..Len(data.floors) : ~IsDict(data.floors[i]))
    THEN [exception |-> "TypeError", result |-> NoValidation]
    ELSE [exception |-> "none", result |-> validate_column_data(data)]

AppFloor(height, amount_x) ==
    [class |-> "FloorData",
     total_height |-> height,
     column_length |-> 400 * Scale,
     column_width |-> 400 * Scale,
     floor_name |-> "F",
     rebar_amount |-> 4,
     rebar_amount_x |-> amount_x,
     rebar_amount_y |-> 2,
     rebar_diameter |-> 20 * Scale,
     edge_stirrup_spacing |-> 500 * Scale,
     mid_stirrup_spacing |-> 500 * Scale,
     stirrup_diameter |-> 8 * Scale]

AppSettings ==
    [class |-> "ColumnSettings", beam_depth |-> 500 * Scale, beam_extension |-> 200 * Scale,
     concrete_cover |-> 25 * Scale, scale |-> 1, spacing_between_columns |-> 1000 * Scale,
     section_scale |-> 1]

\* A floor as it should be, a floor lower than the 2000 mm minimum, and a
\* floor with a single bar along X.
SoundAppFloor == AppFloor(3000 * Scale, 2)
LowAppFloor == AppFloor(1000 * Scale, 2)
SingleBarAppFloor == AppFloor(3000 * Scale, 1)

AppColumn(fs) == [class |-> "ColumnData", settings |-> AppSettings, floors |-> fs]

AppColumns ==
    {AppColumn(<<LowAppFloor>>),
     AppColumn(<<SoundAppFloor, SingleBarAppFloor>>),
     AppColumn(<<SoundAppFloor, SoundAppFloor>>)}

\* What read_column_file can return: at least one column (line 76).
Files == UNION {[1..n -> AppColumns] : n \in 1..MaxAppColumns}

\* The validation loop of _load_excel_data and _validate_data: the results
\* of the columns, or the exception of the first call that raises.
RECURSIVE ValidateColumnsLoop(_, _)
ValidateColumnsLoop(columns, acc) ==
    IF columns = <<>> THEN [exception |-> "none", results |-> acc]
    ELSE LET r == validate_column_data_call(
                      [settings |-> Head(columns).settings, floors |-> Head(columns).floors])
         IN  IF r.exception # "none"
             THEN [exception |-> r.exception, results |-> acc]
             ELSE ValidateColumnsLoop(Tail(columns),
                      Append(acc, [column |-> Head(columns), result |-> r.result]))

\* Whether a validation of the column has completed with is_valid = true.
Validated(column) ==
    \E k \in 1..Len(app.validation_results) :
        /\ app.validation_results[k].column = column
        /\ app.validation_results[k].result.is_valid

Call(op, column, arg) ==
    [op |-> op, column |-> column, arg |-> arg, validated |-> Validated(column)]

InitApp ==
    /\ pc = "app"
    /\ IdleColumn
    /\ done = {}
    /\ lap_diameter = 0
    /\ lap_length = 0
    /\ rebar_layout = NoRebarLayout
    /\ weight = NoWeight
    /\ validation = NoValidation
    /\ IdleRun
    /\ IdleSection
    /\ calculator = ColumnCalculator
    /\ calls = {}
    /\ \E connected \in BOOLEAN : app = [NoApp EXCEPT !.connected = connected]

\* _load_excel_data: no readable file selected; the reader raises; or the
\* reader's columns are assigned to self.column_data and then validated,
\* and the results reach the preview tabs if no validation call raised.
LoadExcelData ==
    /\ pc = "app"
    /\ \/ app' = [app EXCEPT !.message = "select_file"]
       \/ app' = [app EXCEPT !.message = "load_failed"]
       \/ \E file \in Files :
             LET v == ValidateColumnsLoop(file, <<>>)
             IN  IF v.exception # "none"
                 THEN app' = [app EXCEPT !.column_data = file,
                                         !.message = "load_failed"]
                 ELSE app' = [app EXCEPT !.column_data = file,
                                         !.validation_results = v.results,
                                         !.message = "loaded"]
    /\ autocad' = [autocad EXCEPT !.sections = 0]
    /\ UNCHANGED <<frame, floors, settings, base_point, geometry, layout, stirrupVars,
                   lapVars, weightVars, validation, sectionVars, calculator, calls, pc>>

\* _validate_data: it shows a message and keeps nothing.
ValidateData ==
    /\ pc = "app"
    /\ IF app.column_data = <<>>
       THEN app' = [app EXCEPT !.message = "load_first"]
       ELSE LET v == ValidateColumnsLoop(app.column_data, <<>>)
                all_valid == \A k \in 1..Len(v.results) : v.results[k].result.is_valid
                no_warnings == \A k \in 1..Len(v.results) :
                                   v.results[k].result.warnings = <<>>
            IN  app' = [app EXCEPT !.message =
                           IF v.exception # "none" THEN "validation_failed"
                           ELSE IF all_valid /\ no_warnings THEN "all_valid"
                           ELSE IF all_valid THEN "valid_with_warnings"
                           ELSE "has_errors"]
    /\ autocad' = [autocad EXCEPT !.sections = 0]
    /\ UNCHANGED <<frame, floors, settings, base_point, geometry, layout, stirrupVars,
                   lapVars, weightVars, validation, sectionVars, calculator, calls, pc>>

\* spacing = 5000  # mm between columns
ElevationSpacing == 5000

RECURSIVE MaxLength(_)
MaxLength(fs) ==
    IF Len(fs) = 1 THEN fs[1].column_length
    ELSE Max(fs[1].column_length, MaxLength(Tail(fs)))

\* The insertion point of column i in _draw_elevations: it starts at
\* (0, 0, 0) and moves right by max_length + spacing after every column
\* whose draw succeeded.
RECURSIVE InsertionX(_, _, _)
InsertionX(columns, success, i) ==
    IF i = 1 THEN 0
    ELSE InsertionX(columns, success, i - 1)
         + (IF success[i - 1]
            THEN MaxLength(columns[i - 1].floors) + ElevationSpacing * Scale
            ELSE 0)

\* _draw_elevations: draw_column_elevation calls calculate_column_geometry
\* and calculate_rebar_layout for every column of self.column_data.
DrawElevations ==
    /\ pc = "app"
    /\ IF app.column_data = <<>>
       THEN /\ app' = [app EXCEPT !.message = "load_first"]
            /\ calls' = calls
       ELSE IF ~app.connected
       THEN /\ app' = [app EXCEPT !.message = "autocad_unavailable"]
            /\ calls' = calls
       ELSE \E success \in [1..Len(app.column_data) -> BOOLEAN] :
               /\ calls' = calls \cup
                     {Call(op, app.column_data[i],
                           <<InsertionX(app.column_data, success, i), 0, 0>>) :
                        op \in {"calculate_column_geometry", "calculate_rebar_layout"},
                        i \in 1..Len(app.column_data)}
               /\ app' = [app EXCEPT !.message = "elevations_drawn"]
    /\ autocad' = [autocad EXCEPT !.sections = 0]
    /\ UNCHANGED <<frame, floors, settings, base_point, geometry, layout, stirrupVars,
                   lapVars, weightVars, validation, sectionVars, calculator, pc>>

\* The index of the last floor draw_column_sections can reach: the loop of
\* lines 79-85 ends at the first floor whose calculate_section_dimensions
\* raises.
RECURSIVE SectionLimit(_, _)
SectionLimit(column, i) ==
    IF i >= Len(column.floors) THEN Len(column.floors)
    ELSE IF calculate_section_dimensions(column.floors[i],
                column.settings.section_scale).exception # "none"
         THEN i
         ELSE SectionLimit(column, i + 1)

\* The largest number of floors of a column.
LongestColumn(columns) ==
    CHOOSE n \in {Len(columns[i].floors) : i \in 1..Len(columns)} :
        \A i \in 1..Len(columns) : Len(columns[i].floors) <= n

\* The _draw_single_section calls of one Draw Sections command: the
\* handler calls draw_column_sections once per floor of column i (lines
\* 399-408), and each call goes through the floors up to reached[i].
RECURSIVE SectionCalls(_, _, _)
SectionCalls(columns, reached, i) ==
    IF i > Len(columns) THEN 0
    ELSE Len(columns[i].floors) * reached[i] + SectionCalls(columns, reached, i + 1)

\* _draw_sections: draw_column_sections is called for every column, once
\* per floor, and _draw_single_section calls calculate_section_dimensions
\* for the floors in turn until a draw raises; reached[i] is the last floor
\* of column i the calls get to.
DrawSections ==
    /\ pc = "app"
    /\ IF app.column_data = <<>>
       THEN /\ app' = [app EXCEPT !.message = "load_first"]
            /\ autocad' = [autocad EXCEPT !.sections = 0]
            /\ calls' = calls
       ELSE IF ~app.connected
       THEN /\ app' = [app EXCEPT !.message = "autocad_unavailable"]
            /\ autocad' = [autocad EXCEPT !.sections = 0]
            /\ calls' = calls
       ELSE \E reached \in [1..Len(app.column_data) -> 0..LongestColumn(app.column_data)] :
               /\ \A i \in 1..Len(app.column_data) :
                     reached[i] <= SectionLimit(app.column_data[i], 1)
               /\ calls' = calls \cup
                     UNION {{Call("calculate_section_dimensions", app.column_data[i], <<k>>) :
                               k \in 1..reached[i]} : i \in 1..Len(app.column_data)}
               /\ autocad' = [autocad EXCEPT
                                 !.sections = SectionCalls(app.column_data, reached, 1)]
               /\ app' = [app EXCEPT !.message = "sections_drawn"]
    /\ UNCHANGED <<frame, floors, settings, base_point, geometry, layout, stirrupVars,
                   lapVars, weightVars, validation, sectionVars, calculator, pc>>

NextApp == LoadExcelData \/ ValidateData \/ DrawElevations \/ DrawSections

SpecApp == InitApp /\ [][NextApp]_vars

(***************************************************************************)
(* One ColumnCalculator instance called, in any order and any number of    *)
(* times, on the columns its caller holds (app.column_data).  A call       *)
(* record carries the method, the arguments and the returned value.        *)
(* calculate_rebar_layout is given a geometry that an earlier              *)
(* calculate_column_geometry call returned for the same floors.            *)
(***************************************************************************)
CalcFloor(height, diameter) ==
    [total_height |-> height,
     column_length |-> 24,
     column_width |-> 24,
     rebar_amount_x |-> 3,
     rebar_amount_y |-> 2,
     rebar_diameter |-> diameter,
     edge_stirrup_spacing |-> 2,
     mid_stirrup_spacing |-> 3,
     stirrup_diameter |-> 8 * Scale]

CalcColumns ==
    << [floors |-> <<CalcFloor(Scale, 20 * Scale)>>,
        settings |-> [beam_depth |-> 0, concrete_cover |-> 6]],
       [floors |-> <<CalcFloor(2 * Scale, 20 * Scale), CalcFloor(Scale, 6 * Scale)>>,
        settings |-> [beam_depth |-> Scale, concrete_cover |-> 6]],
       [floors |-> <<CalcFloor(2 * Scale, 20 * Scale), CalcFloor(Scale, 6 * Scale)>>,
        settings |-> [beam_depth |-> 0, concrete_cover |-> 12]] >>

InitCalc ==
    /\ pc = "calculator"
    /\ IdleColumn
    /\ done = {}
    /\ lap_diameter = 0
    /\ lap_length = 0
    /\ rebar_layout = NoRebarLayout
    /\ weight = NoWeight
    /\ validation = NoValidation
    /\ IdleRun
    /\ IdleSection
    /\ calculator = ColumnCalculator
    /\ calls = {}
    /\ app = [NoApp EXCEPT !.column_data = CalcColumns]

\* calculate_column_geometry assigns no attribute of self and no entry of
\* its arguments.
CallCalculateColumnGeometry ==
    /\ pc = "calculator"
    /\ \E i \in 1..Len(app.column_data), bp \in BasePoints :
          LET column == app.column_data[i]
          IN  calls' = calls \cup
                  {[op |-> "calculate_column_geometry",
                    args |-> <<column.floors, column.settings, bp>>,
                    result |-> calculate_column_geometry(column.floors, column.settings, bp)]}
    /\ UNCHANGED <<runVars, pc, floors, settings, base_point, geometry, layout, stirrupVars,
                   lapVars, weightVars, validation, sectionVars, calculator, app>>

\* A slip of the cover: it is read from an attribute of the calculator that
\* every call moves on.
CallCalculateRebarLayoutStateful ==
    /\ pc = "calculator"
    /\ \E i \in 1..Len(app.column_data), call \in calls :
          LET column == app.column_data[i]
          IN  /\ call.op = "calculate_column_geometry"
              /\ call.args[1] = column.floors
              /\ calls' = calls \cup
                    {[op |-> "calculate_rebar_layout",
                      args |-> <<column.floors, call.result, column.settings>>,
                      result |-> calculate_rebar_layout(column.floors, call.result,
                                    [column.settings EXCEPT
                                        !.concrete_cover = calculator.rebar_clearance])]}
    /\ calculator' = [calculator EXCEPT !.rebar_clearance = (@ + Scale) % (4 * Scale)]
    /\ UNCHANGED <<runVars, pc, floors, settings, base_point, geometry, layout, stirrupVars,
                   lapVars, weightVars, validation, sectionVars, app>>

\* calculate_rebar_layout assigns no attribute of self and no entry of its
\* arguments.
CallCalculateRebarLayout ==
    /\ pc = "calculator"
    /\ \E i \in 1..Len(app.column_data), call \in calls :
          LET column == app.column_data[i]
          IN  /\ call.op = "calculate_column_geometry"
              /\ call.args[1] = column.floors
              /\ calls' = calls \cup
                    {[op |-> "calculate_rebar_layout",
                      args |-> <<column.floors, call.result, column.settings>>,
                      result |-> calculate_rebar_layout(column.floors, call.result,
                                                        column.settings)]}
    /\ UNCHANGED <<runVars, pc, floors, settings, base_point, geometry, layout, stirrupVars,
                   lapVars, weightVars, validation, sectionVars, calculator, app>>

NextCalc == CallCalculateColumnGeometry \/ CallCalculateRebarLayout

SpecCalc == InitCalc /\ [][NextCalc]_vars

(***************************************************************************)
(* calculate_rebar_layout step by step, in millimetres, on a column that   *)
(* validate_column_data accepted: one step per iteration of the three      *)
(* while loops of _calculate_stirrups.  frame holds the floor index i, the *)
(* floor's base current_y of calculate_rebar_layout (floor_y) and the      *)
(* current_y of _calculate_stirrups.  The lists keep their first           *)
(* MaxStirrups entries: what a loop appends beyond them is not recorded,   *)
(* and the loop goes on all the same.  Heights and beam depths are chosen  *)
(* so that the third is a whole number.                                    *)
(***************************************************************************)
MaxStirrups == 6

LoopFloorDicts ==
    {[FloorDict(h, 4, 2, 2, e) EXCEPT !.mid_stirrup_spacing = m] :
        h \in {1000, 2000, 3200, 5000}, e \in {0, 100, 400}, m \in {0, 150}}

LoopSettingsDicts == {SettingsDict(2000, 25), SettingsDict(2600, 25)}

LoopColumns ==
    {<<>>} \cup {<<f>> : f \in LoopFloorDicts}
    \cup {<<f, g>> : f \in LoopFloorDicts,
                     g \in {FloorDict(3200, 4, 2, 2, 400), FloorDict(2000, 4, 2, 2, 0)}}

Saturate(s) == IF Len(s) <= MaxStirrups THEN s ELSE SubSeq(s, 1, MaxStirrups)

InitLoop ==
    /\ pc = "validate"
    /\ floors \in LoopColumns
    /\ settings \in LoopSettingsDicts
    /\ base_point = <<0, 0, 0>>
    /\ geometry = NoGeometry
    /\ layout = NoLayout
    /\ done = {}
    /\ stirrups = <<>>
    /\ pattern = NoPattern
    /\ stirrup_layout = NoStirrupLayout
    /\ lap_diameter = 0
    /\ lap_length = 0
    /\ rebar_layout = NoRebarLayout
    /\ weight = NoWeight
    /\ validation = NoValidation
    /\ IdleRun
    /\ IdleSection
    /\ IdleApp

\* (height - beam_depth) / 3 of the floor the frame is in.
FrameThird == (floors[frame.i].total_height - settings.beam_depth) \div 3

\* The body of the floor loop up to the first while loop (lines 72-133):
\* the main bars of floor i, stirrups = [] and
\* current_y = base_y + edge_stirrup_spacing.
EnterFloor(i, y, lay) ==
    /\ layout' = [lay EXCEPT !.main_bars =
                     @ \o calculate_main_bars(floors[i], geometry'.column_boundaries[i], y,
                                              floors[i].total_height, settings.concrete_cover)]
    /\ stirrups' = <<>>
    /\ frame' = [i |-> i, floor_y |-> y,
                 current_y |-> y + floors[i].edge_stirrup_spacing]
    /\ pc' = "bottom"

\* The caller hands an accepted column to the calculator:
\* calculate_column_geometry, then calculate_rebar_layout up to the first
\* while loop of the first floor.
BeginRebarLayout ==
    /\ pc = "validate"
    /\ done = {"validate_column_data"}
    /\ validation.is_valid
    /\ geometry' = calculate_column_geometry(floors, settings, base_point)
    /\ IF floors = <<>>
       THEN /\ pc' = "returned"
            /\ layout' = NoLayout
            /\ UNCHANGED <<stirrups, frame>>
       ELSE EnterFloor(1, base_point[2], NoLayout)
    /\ UNCHANGED <<autocad, sectionVars, appVars, floors, settings, base_point, done,
                   pattern, stirrup_layout, lapVars, weightVars, validation>>

\* One test of the bottom loop's condition (lines 134-136): an iteration,
\* or the exit to the middle loop (line 139).
BottomLoop ==
    /\ pc = "bottom"
    /\ IF frame.current_y < frame.floor_y + FrameThird
       THEN /\ stirrups' = Saturate(Append(stirrups,
                   <<frame.current_y, "edge", floors[frame.i].stirrup_diameter>>))
            /\ frame' = [frame EXCEPT !.current_y = @ + floors[frame.i].edge_stirrup_spacing]
            /\ pc' = pc
       ELSE /\ frame' = [frame EXCEPT !.current_y =
                   frame.floor_y + FrameThird + floors[frame.i].mid_stirrup_spacing]
            /\ pc' = "middle"
            /\ UNCHANGED stirrups
    /\ UNCHANGED <<autocad, sectionVars, appVars, floors, settings, base_point, geometry,
                   layout, done, pattern, stirrup_layout, lapVars, weightVars, validation>>

\* One test of the middle loop's condition (lines 140-142), or the exit to
\* the top loop (line 145).
MiddleLoop ==
    /\ pc = "middle"
    /\ IF frame.current_y < frame.floor_y + 2 * FrameThird
       THEN /\ stirrups' = Saturate(Append(stirrups,
                   <<frame.current_y, "mid", floors[frame.i].stirrup_diameter>>))
            /\ frame' = [frame EXCEPT !.current_y = @ + floors[frame.i].mid_stirrup_spacing]
            /\ pc' = pc
       ELSE /\ frame' = [frame EXCEPT !.current_y =
                   frame.floor_y + 2 * FrameThird + floors[frame.i].edge_stirrup_spacing]
            /\ pc' = "top"
            /\ UNCHANGED stirrups
    /\ UNCHANGED <<autocad, sectionVars, appVars, floors, settings, base_point, geometry,
                   layout, done, pattern, stirrup_layout, lapVars, weightVars, validation>>

\* One test of the top loop's condition (lines 146-148), or the return of
\* _calculate_stirrups and the rest of the floor loop's body (lines 84-92):
\* the stirrups and, below the top floor, the lap are added, and the next
\* floor is entered or the layout returned.
TopLoop ==
    /\ pc = "top"
    /\ IF frame.current_y < frame.floor_y + floors[frame.i].total_height
       THEN /\ stirrups' = Saturate(Append(stirrups,
                   <<frame.current_y, "edge", floors[frame.i].stirrup_diameter>>))
            /\ frame' = [frame EXCEPT !.current_y = @ + floors[frame.i].edge_stirrup_spacing]
            /\ pc' = pc
            /\ UNCHANGED <<geometry, layout>>
       ELSE LET floor == floors[frame.i]
                next_y == frame.floor_y + floor.total_height
                lay == [layout EXCEPT
                           !.stirrup_positions = Saturate(@ \o stirrups),
                           !.lap_lengths =
                               IF frame.i < Len(floors)
                               THEN Append(@, <<next_y - (settings.beam_depth \div 2),
                                                Max(40 * floor.rebar_diameter, 300),
                                                floor.rebar_diameter>>)
                               ELSE @]
            IN  /\ UNCHANGED geometry
                /\ IF frame.i < Len(floors)
                   THEN EnterFloor(frame.i + 1, next_y, lay)
                   ELSE /\ layout' = lay
                        /\ pc' = "returned"
                        /\ UNCHANGED <<stirrups, frame>>
    /\ UNCHANGED <<autocad, sectionVars, appVars, floors, settings, base_point,
                   done, pattern, stirrup_layout, lapVars, weightVars, validation>>

NextLoop ==
    ValidateColumnData \/ BeginRebarLayout \/ BottomLoop \/ MiddleLoop \/ TopLoop

SpecLoop == InitLoop /\ [][NextLoop]_vars

\* The interpreter goes on running the call it is in.
LiveLoop == SpecLoop /\ WF_vars(NextLoop)

(***************************************************************************)
(* The elevation and the section of one rectangular floor: the column      *)
(* pipeline, then _draw_single_section's calculate_section_dimensions call *)
(* on the same floor, in ticks.  The lengths, covers and bar counts keep   *)
(* both spacing divisions exact.                                           *)
(***************************************************************************)
MaxAgreeBars == 4

AgreeFloors ==
    [total_height : {Scale},
     column_length : {200 * Scale, 400 * Scale},
     column_width : {300 * Scale},
     rebar_amount : {4},
     rebar_amount_x : 0..MaxAgreeBars,
     rebar_amount_y : {2, 3},
     rebar_diameter : {20 * Scale},
     edge_stirrup_spacing : {2},
     mid_stirrup_spacing : {3},
     stirrup_diameter : {8 * Scale}]

AgreeSettings ==
    [beam_depth : {0}, concrete_cover : {25 * Scale, 40 * Scale, 50 * Scale},
     section_scale : {1}]

InitAgree ==
    /\ pc = "loaded"
    /\ floors \in {<<f>> : f \in AgreeFloors}
    /\ settings \in AgreeSettings
    /\ base_point \in BasePoints
    /\ geometry = NoGeometry
    /\ layout = NoLayout
    /\ done = {}
    /\ stirrups = <<>>
    /\ pattern = NoPattern
    /\ stirrup_layout = NoStirrupLayout
    /\ lap_diameter = 0
    /\ lap_length = 0
    /\ rebar_layout = NoRebarLayout
    /\ weight = NoWeight
    /\ validation = NoValidation
    /\ IdleRun
    /\ IdleSection
    /\ IdleApp

\* _draw_single_section (line 254): the section of the floor whose
\* elevation has been computed.
DrawSingleSection ==
    /\ pc = "layout"
    /\ section' = calculate_section_dimensions(floors[1], settings.section_scale)
    /\ pc' = "drawn"
    /\ UNCHANGED <<runVars, appVars, column_section, floors, settings, base_point, geometry,
                   layout, stirrupVars, lapVars, weightVars, validation>>

NextAgree == CalculateColumnGeometry \/ CalculateRebarLayout \/ DrawSingleSection

SpecAgree == InitAgree /\ [][NextAgree]_vars

(***************************************************************************)
(* AutoCADManager and DrawingContext (autocad_manager.py) under the        *)
(* with-blocks of draw_column_elevation and draw_column_sections, one step *)
(* per __enter__ and per end of a block.  The document behaves as AutoCAD  *)
(* documents do: Layers.Add adds the name, Layers.Item finds every name of *)
(* the collection, and assigning ActiveLayer makes that layer the active   *)
(* one.  frame holds the layers of the blocks still to run (pending), the  *)
(* active layer at the call (called_from) and at the last __enter__        *)
(* (entered_from), whether the last block raised, and the returned value.  *)
(***************************************************************************)
MaxSectionBlocks == 2

\* ColumnDrawingService.layers (lines 20-28).
ServiceLayers ==
    {"CONCRETE", "REBAR", "STIRRUPS", "DIMENSIONS", "TEXT", "SECTIONS", "HIDDEN"}

\* The with-blocks of draw_column_elevation, in order (lines 51-64).
ElevationBlocks == <<"CONCRETE", "REBAR", "STIRRUPS", "DIMENSIONS", "TEXT">>

\* The with-blocks of draw_column_sections for n floors (lines 79-83).
SectionBlocks(n) == [k \in 1..n |-> "SECTIONS"]

\* The layers a drawing may have when a draw is called.
DocumentLayers == {{"0"}, {"0", "WALLS"}, {"0", "WALLS", "REBAR"}}

NoDraw ==
    [pending |-> <<>>, called_from |-> "0", entered_from |-> "0",
     raised |-> FALSE, result |-> TRUE]

\* create_layer (lines 44-58): the name is added when it is missing.
create_layer(a, layer_name) ==
    IF a.connected THEN [a EXCEPT !.layers = @ \cup {layer_name}] ELSE a

\* set_current_layer (lines 60-67): Layers.Item raises for a missing name
\* and the method returns False.
set_current_layer(a, layer_name) ==
    IF a.connected /\ layer_name \in a.layers
    THEN [a EXCEPT !.active_layer = layer_name]
    ELSE a

\* A slip of __enter__: the original layer is read after the context's
\* layer has been made current.
DrawingContext_enter_late(a, layer) ==
    IF a.connected
    THEN LET created == create_layer(a, layer)
             current == set_current_layer(created, layer)
         IN  [current EXCEPT !.context =
                 [layer |-> layer, original_layer |-> current.active_layer]]
    ELSE [a EXCEPT !.context = [NoContext EXCEPT !.layer = layer]]

\* DrawingContext.__init__ and __enter__ (lines 102-112) on a manager whose
\* ensure_connection has answered a.connected.
DrawingContext_enter(a, layer) ==
    IF a.connected
    THEN LET created == create_layer(a, layer)
             entered == [created EXCEPT !.context =
                            [layer |-> layer, original_layer |-> created.active_layer]]
         IN  set_current_layer(entered, layer)
    ELSE [a EXCEPT !.context = [NoContext EXCEPT !.layer = layer]]

\* DrawingContext.__exit__ (lines 114-117): exc_type is not looked at.
DrawingContext_exit(a, exc_type) ==
    IF a.context.original_layer # "" /\ a.connected
    THEN set_current_layer(a, a.context.original_layer)
    ELSE a

InitLayer ==
    /\ pc = "idle"
    /\ floors = <<>>
    /\ settings = ScenarioSettings
    /\ base_point = <<0, 0, 0>>
    /\ geometry = NoGeometry
    /\ layout = NoLayout
    /\ done = {}
    /\ stirrups = <<>>
    /\ pattern = NoPattern
    /\ stirrup_layout = NoStirrupLayout
    /\ lap_diameter = 0
    /\ lap_length = 0
    /\ rebar_layout = NoRebarLayout
    /\ weight = NoWeight
    /\ validation = NoValidation
    /\ frame = NoDraw
    /\ \E ls \in DocumentLayers : \E l \in ls :
          autocad = [NoAutoCAD EXCEPT !.layers = ls, !.active_layer = l]
    /\ IdleSection
    /\ IdleApp

\* AutoCADManager.connect (lines 21-36): it succeeds or fails.
Connect ==
    /\ pc = "idle"
    /\ ~autocad.connected
    /\ \E ok \in BOOLEAN : autocad' = [autocad EXCEPT !.connected = ok]
    /\ UNCHANGED <<pc, frame, sectionVars, appVars, floors, settings, base_point, geometry,
                   layout, stirrupVars, lapVars, weightVars, validation>>

\* The user makes another layer of the drawing the current one.
UserSetsLayer ==
    /\ pc = "idle"
    /\ \E l \in autocad.layers \ {autocad.active_layer} :
          autocad' = [autocad EXCEPT !.active_layer = l]
    /\ UNCHANGED <<pc, frame, sectionVars, appVars, floors, settings, base_point, geometry,
                   layout, stirrupVars, lapVars, weightVars, validation>>

\* draw_column_elevation up to its first with-block (lines 33-49): the
\* calculations, which may raise, and _setup_layers, which creates the
\* service's layers.
CallDrawColumnElevation ==
    /\ pc = "idle"
    /\ \E raised \in BOOLEAN :
          IF raised
          THEN /\ frame' = [NoDraw EXCEPT !.called_from = autocad.active_layer,
                                           !.raised = TRUE, !.result = FALSE]
               /\ pc' = "returned"
               /\ UNCHANGED autocad
          ELSE /\ frame' = [NoDraw EXCEPT !.called_from = autocad.active_layer,
                                           !.pending = ElevationBlocks]
               /\ autocad' = IF autocad.connected
                             THEN [autocad EXCEPT !.layers = @ \cup ServiceLayers]
                             ELSE autocad
               /\ pc' = "enter"
    /\ UNCHANGED <<sectionVars, appVars, floors, settings, base_point, geometry,
                   layout, stirrupVars, lapVars, weightVars, validation>>

\* draw_column_sections up to its first with-block (lines 76-80), for a
\* column of n floors.
CallDrawColumnSections ==
    /\ pc = "idle"
    /\ \E n \in 1..MaxSectionBlocks :
          frame' = [NoDraw EXCEPT !.called_from = autocad.active_layer,
                                  !.pending = SectionBlocks(n)]
    /\ pc' = "enter"
    /\ UNCHANGED <<autocad, sectionVars, appVars, floors, settings, base_point, geometry,
                   layout, stirrupVars, lapVars, weightVars, validation>>

\* `with DrawingContext(self.autocad, layer)`: __enter__, whose
\* ensure_connection tries to connect when there is no connection.
EnterContext ==
    /\ pc = "enter"
    /\ \E ok \in BOOLEAN :
          LET ensured == IF autocad.connected THEN autocad
                         ELSE [autocad EXCEPT !.connected = ok]
          IN  /\ autocad' = DrawingContext_enter(ensured, Head(frame.pending))
              /\ frame' = [frame EXCEPT !.entered_from = ensured.active_layer,
                                        !.pending = Tail(@)]
    /\ pc' = "body"
    /\ UNCHANGED <<sectionVars, appVars, floors, settings, base_point, geometry,
                   layout, stirrupVars, lapVars, weightVars, validation>>

\* The block ends, by its last statement or by an exception of a draw
\* method, and __exit__ runs.  Without a connection model_space is None and
\* the draw methods raise.
LeaveContext ==
    /\ pc = "body"
    /\ \E raised \in BOOLEAN :
          /\ ~autocad.connected => raised
          /\ autocad' = DrawingContext_exit(autocad, IF raised THEN "Exception" ELSE "None")
          /\ frame' = [frame EXCEPT !.raised = raised]
    /\ pc' = "left"
    /\ UNCHANGED <<sectionVars, appVars, floors, settings, base_point, geometry,
                   layout, stirrupVars, lapVars, weightVars, validation>>

\* After a block: the except clause returns False, the next block is
\* entered, or the method returns True.
AfterContext ==
    /\ pc = "left"
    /\ IF frame.raised
       THEN /\ frame' = [frame EXCEPT !.result = FALSE, !.pending = <<>>]
            /\ pc' = "returned"
       ELSE IF frame.pending # <<>>
       THEN /\ pc' = "enter"
            /\ UNCHANGED frame
       ELSE /\ frame' = [frame EXCEPT !.result = TRUE]
            /\ pc' = "returned"
    /\ UNCHANGED <<autocad, sectionVars, appVars, floors, settings, base_point, geometry,
                   layout, stirrupVars, lapVars, weightVars, validation>>

\* The caller goes on.
ReturnFromDraw ==
    /\ pc = "returned"
    /\ pc' = "idle"
    /\ frame' = NoDraw
    /\ UNCHANGED <<autocad, sectionVars, appVars, floors, settings, base_point, geometry,
                   layout, stirrupVars, lapVars, weightVars, validation>>

NextLayer ==
    \/ Connect
    \/ UserSetsLayer
    \/ CallDrawColumnElevation
    \/ CallDrawColumnSections
    \/ EnterContext
    \/ LeaveContext
    \/ AfterContext
    \/ ReturnFromDraw

SpecLayer == InitLayer /\ [][NextLayer]_vars

(***************************************************************************)
(* Properties of the column geometry.                                      *)
(***************************************************************************)
GeometryDone == pc \in {"geometry", "layout"}

AllHeightsPositive == \A i \in 1..Len(floors) : floors[i].total_height > 0

\* C1: for a non-empty floor list whose heights are all strictly positive,
\* the floor levels returned by calculate_column_geometry are strictly
\* increasing: floor_levels[i+1] > floor_levels[i] for every index i.
C1_MonotonicLevels ==
    (GeometryDone /\ Len(floors) >= 1 /\ AllHeightsPositive) =>
        \A i \in 1..(Len(geometry.floor_levels) - 1) :
            geometry.floor_levels[i + 1] > geometry.floor_levels[i]

C1_Witness ==
    /\ GeometryDone /\ Len(floors) = 2 /\ AllHeightsPositive
    /\ floors[1].total_height > floors[2].total_height
    /\ base_point[2] < 0
    /\ Len(geometry.floor_levels) = 3
    /\ geometry.floor_levels[3] > geometry.floor_levels[2]

\* C2: floor_levels has exactly len(floors) + 1 entries, starts at
\* base_point.y, each further level adds that floor's total_height, and the
\* last level minus the first is the returned total_height, the sum of the
\* floor heights.
C2_CumulativeLevels ==
    GeometryDone =>
        /\ Len(geometry.floor_levels) = Len(floors) + 1
        /\ geometry.floor_levels[1] = base_point[2]
        /\ \A i \in 1..Len(floors) :
              geometry.floor_levels[i + 1]
                  = geometry.floor_levels[i] + floors[i].total_height
        /\ geometry.floor_levels[Len(floors) + 1] - geometry.floor_levels[1]
              = geometry.total_height
        /\ geometry.total_height = SumSeq([i \in 1..Len(floors) |-> floors[i].total_height])

C2_Witness ==
    /\ GeometryDone /\ Len(floors) = 2
    /\ base_point[2] # 0
    /\ floors[1].total_height = 2 * Scale /\ floors[2].total_height = Scale
    /\ geometry.floor_levels = <<base_point[2], base_point[2] + 2 * Scale,
                                 base_point[2] + 3 * Scale>>
    /\ geometry.total_height = 3 * Scale

\* C3: every floor's boundary (left, right) is symmetric about the base
\* point's X, (left + right) / 2 = base_x, and right - left is that floor's
\* own column_length, whatever the other floors' lengths are.
C3_SymmetricBoundaries ==
    GeometryDone =>
        /\ Len(geometry.column_boundaries) = Len(floors)
        /\ \A i \in 1..Len(floors) :
              LET left == geometry.column_boundaries[i][1]
                  right == geometry.column_boundaries[i][2]
              IN  /\ left + right = 2 * base_point[1]
                  /\ right - left = floors[i].column_length

C3_Witness ==
    /\ GeometryDone /\ Len(floors) = 2
    /\ base_point[1] # 0
    /\ floors[1].column_length # floors[2].column_length
    /\ geometry.column_boundaries[1] # geometry.column_boundaries[2]
    /\ geometry.column_boundaries[2][2] - geometry.column_boundaries[2][1]
          = floors[2].column_length

(***************************************************************************)
(* Properties of the stirrups of one floor (SpecFloor).                    *)
(***************************************************************************)
StirrupsDone == pc = "floor" /\ "calculate_stirrups" \in done

FloorBase == base_point[2]
FloorHeight == floors[1].total_height
BeamDepth == settings.beam_depth

\* The Y-positions of a list of (y, label, diameter) tuples.
StirrupYs(s) == [k \in 1..Len(s) |-> s[k][1]]

\* The elevations of a list of Stirrup entities.
Elevations(s) == [k \in 1..Len(s) |-> s[k].elevation]

\* The number of stirrups the bottom and middle zones contribute: they come
\* first in the list.
LowerZonesCount ==
    Len(StirrupsBottom(floors[1], FloorBase, FloorHeight, BeamDepth))
        + Len(StirrupsMiddle(floors[1], FloorBase, FloorHeight, BeamDepth))

\* C4 as claimed: for a floor of positive height and spacings and any
\* non-negative beam depth, every stirrup Y lies in
\* [floor_base_y, floor_base_y + floor_height).
C4_Claimed ==
    (StirrupsDone /\ FloorHeight > 0 /\ BeamDepth >= 0) =>
        \A k \in 1..Len(stirrups) :
            /\ FloorBase <= stirrups[k][1]
            /\ stirrups[k][1] < FloorBase + FloorHeight

\* C4 amended: for a floor of positive height and spacings and a beam depth
\* between 0 and the floor height, every stirrup Y lies in
\* [floor_base_y, floor_base_y + floor_height).
C4_Containment ==
    (StirrupsDone /\ FloorHeight > 0 /\ BeamDepth >= 0 /\ BeamDepth <= FloorHeight) =>
        \A k \in 1..Len(stirrups) :
            /\ FloorBase <= stirrups[k][1]
            /\ stirrups[k][1] < FloorBase + FloorHeight

C4_Witness ==
    /\ StirrupsDone /\ FloorHeight > 0 /\ BeamDepth > 0 /\ BeamDepth < FloorHeight
    /\ FloorBase # 0
    /\ Len(stirrups) >= 3
    /\ \E k \in 1..Len(stirrups) : stirrups[k][1] = FloorBase + FloorHeight - 1

\* C5 as claimed: no stirrup of a floor lies above the floor's usable
\* height: y - floor_base_y <= total_height - beam_depth.
C5_Claimed ==
    StirrupsDone =>
        \A k \in 1..Len(stirrups) :
            stirrups[k][1] - FloorBase <= FloorHeight - BeamDepth

\* C5 amended: the stirrups of the bottom and middle zones lie below the
\* floor's usable height, and the stirrups of the top zone, which runs
\* through the beam zone, lie below the floor's total height:
\* y - floor_base_y < total_height.
C5_UsableHeight ==
    StirrupsDone =>
        /\ \A k \in 1..Len(stirrups) :
              /\ stirrups[k][1] - FloorBase < FloorHeight
              /\ stirrups[k][2] = "mid" =>
                    stirrups[k][1] - FloorBase < FloorHeight - BeamDepth
        /\ LowerZonesCount <= Len(stirrups)
        /\ \A k \in 1..LowerZonesCount :
              stirrups[k][1] - FloorBase < FloorHeight - BeamDepth

C5_Witness ==
    /\ StirrupsDone
    /\ floors = <<ScenarioFloor>> /\ settings = ScenarioSettings
    /\ stirrups[1][1] = 100 * Scale
    /\ LowerZonesCount >= 2
    /\ stirrups[LowerZonesCount][2] = "mid"
    /\ stirrups[LowerZonesCount][1] < 2500 * Scale
    /\ stirrups[Len(stirrups)][1] > 2500 * Scale
    /\ stirrups[Len(stirrups)][1] < 3000 * Scale

\* C6: for identical (start_y, height, beam_depth, edge_spacing,
\* mid_spacing), the elevations of the stirrups produced by
\* StirrupPattern.generate_rectangular_pattern, the Y-positions produced by
\* ColumnCalculator._calculate_stirrups and the positions produced by
\* StirrupLayout.calculate_positions are the same ordered sequence.
C6_CrossCheck ==
    /\ (StirrupsDone /\ "generate_rectangular_pattern" \in done) =>
          Elevations(pattern.stirrups) = StirrupYs(stirrups)
    /\ (StirrupsDone /\ "calculate_positions" \in done) =>
          stirrup_layout.positions = StirrupYs(stirrups)

C6_Witness ==
    /\ done = {"calculate_stirrups", "generate_rectangular_pattern",
               "calculate_positions"}
    /\ BeamDepth > 0
    /\ Len(stirrups) >= 4
    /\ \E k \in 1..Len(stirrups) : stirrups[k][2] = "mid"
    /\ stirrups[Len(stirrups)][1] > FloorBase + FloorHeight - BeamDepth
    /\ Elevations(pattern.stirrups) = stirrup_layout.positions

(***************************************************************************)
(* Property of the lap length (SpecLap).                                   *)
(***************************************************************************)
LapDone == pc = "lap" /\ done = {"calculate_lap_length"}

\* C7: for every bar diameter d, _calculate_lap_length(d) is max(40 * d, 300):
\* it is at least 40 * d and at least 300 and equal to one of them, it is 800
\* for d = 20 and 300 for d = 6.
C7_LapLengthLaw ==
    LapDone =>
        /\ lap_length >= 40 * lap_diameter
        /\ lap_length >= 300 * Scale
        /\ lap_length \in {40 * lap_diameter, 300 * Scale}
        /\ lap_diameter = 20 * Scale => lap_length = 800 * Scale
        /\ lap_diameter = 6 * Scale => lap_length = 300 * Scale

C7_Witness == LapDone /\ lap_diameter = 20 * Scale /\ lap_length = 800 * Scale

(***************************************************************************)
(* Property of the rebar weight (SpecWeight).                              *)
(***************************************************************************)
SingleVerticalRebar ==
    [diameter |-> 20, start_point |-> <<0, 0, 0>>, end_point |-> <<0, 3000, 0>>,
     grade |-> "500"]

\* C8: get_total_weight with the default density returns the weight in
\* kilograms: for a layout holding the single vertical rebar of diameter
\* 20 mm and length 3000 mm it returns 7.40 kg within 0.01 kg.
C8_WeightInKilograms ==
    (/\ pc = "weight" /\ done = {"get_total_weight"}
     /\ rebar_layout.main_bars = <<SingleVerticalRebar>>
     /\ rebar_layout.links = <<>>) =>
        /\ weight.exception = "none"
        /\ weight.centikg >= 739
        /\ weight.centikg <= 741

(***************************************************************************)
(* Properties of the validation (SpecValid).                               *)
(***************************************************************************)
ValidationDone == pc = "validate" /\ done = {"validate_column_data"}

HasMismatchError(floor_number) ==
    \E k \in 1..Len(validation.errors) :
        /\ validation.errors[k].kind = "rebar_mismatch"
        /\ validation.errors[k].floor = floor_number

\* The expected count as the specification states it.
ExpectedPerimeterCount(x, y) ==
    IF x > 0 /\ y > 0 THEN 2 * x + 2 * (IF y - 2 > 0 THEN y - 2 ELSE 0)
    ELSE IF x > 0 /\ y = 0 THEN x
    ELSE 0

\* C9: for every floor record carrying rebar_amount, rebar_amount_x and
\* rebar_amount_y, validate_column_data reports a rebar-amount-mismatch
\* error for that floor, and is_valid = false, exactly when rebar_amount
\* differs from the expected perimeter count; amount 10 with x = 4, y = 4
\* expects 12 and is an error.
C9_RebarMismatch ==
    ValidationDone =>
        \A i \in 1..Len(floors) :
            {"rebar_amount", "rebar_amount_x", "rebar_amount_y"} \subseteq DOMAIN floors[i] =>
                LET expected == ExpectedPerimeterCount(floors[i].rebar_amount_x,
                                                       floors[i].rebar_amount_y)
                IN  /\ HasMismatchError(i) <=> floors[i].rebar_amount # expected
                    /\ floors[i].rebar_amount # expected => ~validation.is_valid
                    /\ \A k \in 1..Len(validation.errors) :
                          (/\ validation.errors[k].kind = "rebar_mismatch"
                           /\ validation.errors[k].floor = i) =>
                              validation.errors[k].detail
                                  = <<expected, floors[i].rebar_amount>>
                    /\ floors[i] = ScenarioFloorDict =>
                          (expected = 12 /\ HasMismatchError(i))

C9_Witness ==
    /\ ValidationDone
    /\ floors = <<ScenarioFloorDict>>
    /\ HasMismatchError(1)
    /\ ~validation.is_valid

\* C10: in every result of validate_column_data, is_valid is true if and
\* only if the errors list is empty, whatever the warnings are.
C10_ValidIffNoErrors ==
    ValidationDone => (validation.is_valid <=> Len(validation.errors) = 0)

C10_Witness ==
    /\ ValidationDone
    /\ validation.is_valid
    /\ Len(validation.errors) = 0
    /\ Len(validation.warnings) >= 2

(***************************************************************************)
(* Properties of the range checks and the warnings (SpecValid).            *)
(***************************************************************************)
HasErrorForFloor(floor_number) ==
    \E k \in 1..Len(validation.errors) : validation.errors[k].floor = floor_number

\* The floor fields of each type of the limits table.
FieldTypes ==
    [total_height |-> "floor_height",
     column_length |-> "column_length",
     column_width |-> "column_width",
     rebar_diameter |-> "rebar_diameter",
     stirrup_diameter |-> "stirrup_diameter",
     edge_stirrup_spacing |-> "spacing",
     mid_stirrup_spacing |-> "spacing"]

OutOfLimits(value, value_type) ==
    value < Limits[value_type].min \/ value > Limits[value_type].max

\* C11: a supplied value outside the [min, max] of its field type makes
\* validate_column_data report an error and is_valid = false: every floor
\* field of the types column_length, column_width (negative widths
\* included), floor_height, rebar_diameter, stirrup_diameter and spacing
\* (edge and mid stirrup spacing, [50, 500]), and the concrete_cover setting.
C11_RangeChecks ==
    ValidationDone =>
        /\ \A i \in 1..Len(floors) :
              \A key \in (DOMAIN FieldTypes) \cap (DOMAIN floors[i]) :
                  OutOfLimits(floors[i][key], FieldTypes[key]) =>
                      (~validation.is_valid /\ HasErrorForFloor(i))
        /\ ("concrete_cover" \in DOMAIN settings
              /\ OutOfLimits(settings.concrete_cover, "concrete_cover")) =>
                (~validation.is_valid /\ HasErrorForFloor(0))

\* The range checks the validator does make: every type of the table but
\* the spacings, and the widths above zero.
C11_CheckedRanges ==
    ValidationDone =>
        /\ \A i \in 1..Len(floors) :
              \A key \in ((DOMAIN FieldTypes) \cap (DOMAIN floors[i]))
                          \ {"edge_stirrup_spacing", "mid_stirrup_spacing"} :
                  (/\ OutOfLimits(floors[i][key], FieldTypes[key])
                   /\ key = "column_width" => floors[i][key] > 0) =>
                      (~validation.is_valid /\ HasErrorForFloor(i))
        /\ ("concrete_cover" \in DOMAIN settings
              /\ OutOfLimits(settings.concrete_cover, "concrete_cover")) =>
                (~validation.is_valid /\ HasErrorForFloor(0))

\* A run in which a spacing of 10 mm passes the validation.
C11_SpacingAccepted ==
    /\ ValidationDone
    /\ floors = <<[SoundFloorDict EXCEPT !.edge_stirrup_spacing = 10]>>
    /\ validation.is_valid

\* A run in which a negative width passes the validation.
C11_NegativeWidthAccepted ==
    /\ ValidationDone
    /\ floors = <<[SoundFloorDict EXCEPT !.column_width = -100]>>
    /\ validation.is_valid

\* C12: for every rectangular floor (column_width > 0) with
\* rebar_amount_x <= 1 or rebar_amount_y <= 1, validate_column_data never
\* returns is_valid = true.
C12_CountsRejected ==
    ValidationDone =>
        \A i \in 1..Len(floors) :
            (/\ {"column_width", "rebar_amount_x", "rebar_amount_y"} \subseteq DOMAIN floors[i]
             /\ floors[i].column_width > 0
             /\ (floors[i].rebar_amount_x <= 1 \/ floors[i].rebar_amount_y <= 1)) =>
                ~validation.is_valid

\* A run in which a rectangular floor with one bar on each axis passes the
\* validation: 2 * 1 + 2 * max(0, 1 - 2) = 2 bars are expected and declared.
C12_SingleBarAccepted ==
    /\ ValidationDone
    /\ floors = <<FloorDict(3000, 2, 1, 1, 100)>>
    /\ validation = [is_valid |-> TRUE, errors |-> <<>>, warnings |-> <<>>]

HasWarning(floor_number, kind) ==
    \E k \in 1..Len(validation.warnings) :
        /\ validation.warnings[k].kind = kind
        /\ validation.warnings[k].floor = floor_number

\* C13: validate_column_data emits a warning for a floor when twice the
\* column's concrete_cover setting is >= the floor's column_length, when the
\* edge stirrup spacing is < 75 and when the mid stirrup spacing is > 300,
\* whether or not errors exist and whichever other floor fields are present.
C13_Warnings ==
    ValidationDone =>
        \A i \in 1..Len(floors) :
            /\ (/\ "concrete_cover" \in DOMAIN settings
                /\ "column_length" \in DOMAIN floors[i]
                /\ 2 * settings.concrete_cover >= floors[i].column_length) =>
                    HasWarning(i, "cover_too_large")
            /\ (/\ "edge_stirrup_spacing" \in DOMAIN floors[i]
                /\ floors[i].edge_stirrup_spacing < 75) =>
                    HasWarning(i, "edge_spacing_small")
            /\ (/\ "mid_stirrup_spacing" \in DOMAIN floors[i]
                /\ floors[i].mid_stirrup_spacing > 300) =>
                    HasWarning(i, "mid_spacing_large")

\* What the validator does warn about: the floor's own concrete_cover entry
\* (25 when the floor has none) against the length of a floor that has a
\* column_width entry, and the spacings of a floor that has both of them;
\* errors do not suppress a warning.
C13_FloorWarnings ==
    ValidationDone =>
        \A i \in 1..Len(floors) :
            /\ HasWarning(i, "cover_too_large") <=>
                  /\ {"column_length", "column_width"} \subseteq DOMAIN floors[i]
                  /\ 2 * (IF "concrete_cover" \in DOMAIN floors[i]
                          THEN floors[i].concrete_cover ELSE 25)
                       >= floors[i].column_length
            /\ HasWarning(i, "edge_spacing_small") <=>
                  /\ {"edge_stirrup_spacing", "mid_stirrup_spacing"} \subseteq DOMAIN floors[i]
                  /\ floors[i].edge_stirrup_spacing < 75
            /\ HasWarning(i, "mid_spacing_large") <=>
                  /\ {"edge_stirrup_spacing", "mid_stirrup_spacing"} \subseteq DOMAIN floors[i]
                  /\ floors[i].mid_stirrup_spacing > 300

\* A run in which a cover setting of 100 mm and a column length of 150 mm
\* pass without a warning.
C13_CoverSettingIgnored ==
    /\ ValidationDone
    /\ settings = SettingsDict(2500, 100)
    /\ floors = <<[SoundFloorDict EXCEPT !.column_length = 150]>>
    /\ validation = [is_valid |-> TRUE, errors |-> <<>>, warnings |-> <<>>]

\* A run in which the warnings are computed next to errors.
C13_WarningWithErrors ==
    /\ ValidationDone
    /\ ~validation.is_valid
    /\ HasWarning(1, "edge_spacing_small")

(***************************************************************************)
(* Properties of the section of one floor (SpecSection).                   *)
(***************************************************************************)
SectionDone == pc = "section" /\ "calculate_section_dimensions" \in done

SectionFloor == floors[1]

\* The section cover of 25 mm, in ticks.
Cover25 == 25 * Scale

\* C16: for every FloorData, whatever its column_width, the record that
\* calculate_section_dimensions returns has length = column_length, width =
\* column_width when column_width > 0 and column_length otherwise, and
\* is_circular true exactly when the width was replaced by the length and
\* the rebar positions are those of the circular layout.
C16_SectionDimensions ==
    (SectionDone /\ section.exception = "none") =>
        LET replaced == ~(SectionFloor.column_width > 0)
        IN  /\ section.length = SectionFloor.column_length
            /\ section.width = (IF SectionFloor.column_width > 0
                                THEN SectionFloor.column_width
                                ELSE SectionFloor.column_length)
            /\ section.is_circular <=>
                  /\ replaced
                  /\ section.rebar_positions
                        = CircularSectionPositions(SectionFloor, SectionFloor.column_length,
                                                   Cover25)

\* A run on a floor of width -100 mm: the width is replaced by the length
\* and the four bars lie on the circle, yet is_circular is false.
C16_NegativeWidth ==
    /\ SectionDone
    /\ SectionFloor.column_width = -100 * Scale
    /\ SectionFloor.column_length = 400 * Scale
    /\ SectionFloor.rebar_amount_x = 4
    /\ section.exception = "none"
    /\ section.width = 400 * Scale
    /\ section.rebar_positions
          = << <<375 * Scale, 200 * Scale>>, <<200 * Scale, 375 * Scale>>,
               <<25 * Scale, 200 * Scale>>, <<200 * Scale, 25 * Scale>> >>
    /\ ~section.is_circular

RectangularGrid ==
    /\ SectionFloor.column_width > 0
    /\ SectionFloor.rebar_amount_x >= 2
    /\ SectionFloor.rebar_amount_y >= 2

\* The positions are those of the grid: one per pair (i, j), in the order of
\* the pairs, at cover + i * (length - 2 * cover) / (x - 1) and
\* cover + j * (width - 2 * cover) / (y - 1), the four corners among them.
GridPositions(positions) ==
    LET x == SectionFloor.rebar_amount_x
        y == SectionFloor.rebar_amount_y
        length == SectionFloor.column_length
        width == SectionFloor.column_width
    IN  /\ Len(positions) = x * y
        /\ \A i \in 0..(x - 1) : \A j \in 0..(y - 1) :
              LET p == positions[i * y + j + 1]
              IN  /\ (p[1] - Cover25) * (x - 1) = i * (length - 2 * Cover25)
                  /\ (p[2] - Cover25) * (y - 1) = j * (width - 2 * Cover25)
        /\ \A corner \in {<<Cover25, Cover25>>, <<Cover25, width - Cover25>>,
                          <<length - Cover25, Cover25>>,
                          <<length - Cover25, width - Cover25>>} :
              \E k \in 1..Len(positions) : positions[k] = corner

WithinCover(positions) ==
    \A k \in 1..Len(positions) :
        /\ Cover25 <= positions[k][1]
        /\ positions[k][1] <= SectionFloor.column_length - Cover25
        /\ Cover25 <= positions[k][2]
        /\ positions[k][2] <= SectionFloor.column_width - Cover25

\* C17 as claimed: for a rectangular floor (column_width > 0) with
\* rebar_amount_x >= 2 and rebar_amount_y >= 2 the section layout returns
\* exactly x * y positions, one per grid pair at the interpolated
\* coordinates with the cover of 25 mm, the four corners included, and every
\* coordinate lies between cover and (dimension - cover).
C17_Claimed ==
    (SectionDone /\ RectangularGrid) =>
        /\ section.exception = "none"
        /\ GridPositions(section.rebar_positions)
        /\ WithinCover(section.rebar_positions)

\* C17 amended: the positions are those of the grid, the corners included,
\* for every such floor; every coordinate lies between cover and
\* (dimension - cover) when the length and the width are at least twice the
\* cover of 25 mm.
C17_GridLayout ==
    (SectionDone /\ RectangularGrid) =>
        /\ section.exception = "none"
        /\ GridPositions(section.rebar_positions)
        /\ (/\ SectionFloor.column_length >= 2 * Cover25
            /\ SectionFloor.column_width >= 2 * Cover25) =>
                WithinCover(section.rebar_positions)

C17_Witness ==
    /\ SectionDone
    /\ SectionFloor.column_length = 400 * Scale
    /\ SectionFloor.column_width = 300 * Scale
    /\ SectionFloor.rebar_amount_x = 3
    /\ SectionFloor.rebar_amount_y = 3
    /\ section.rebar_positions
          = << <<25 * Scale, 25 * Scale>>, <<25 * Scale, 150 * Scale>>,
               <<25 * Scale, 275 * Scale>>, <<200 * Scale, 25 * Scale>>,
               <<200 * Scale, 150 * Scale>>, <<200 * Scale, 275 * Scale>>,
               <<375 * Scale, 25 * Scale>>, <<375 * Scale, 150 * Scale>>,
               <<375 * Scale, 275 * Scale>> >>

(***************************************************************************)
(* Properties of the ColumnSection entity (SpecSection).                   *)
(***************************************************************************)
EntityDone == pc = "section" /\ "calculate_rebar_positions" \in done

EntityFloor == column_section.floor

EntityGrid ==
    /\ EntityFloor.width > 0
    /\ ~EntityFloor.reinforcement.is_none
    /\ EntityFloor.reinforcement.main_bars_x >= 2
    /\ EntityFloor.reinforcement.main_bars_y >= 2

\* The Point3D of the grid pair (i, j) for the cover the call was given.
EntityGridPoint(i, j) ==
    LET cover == settings.concrete_cover
    IN  <<cover + i * ((EntityFloor.length - 2 * cover)
                          \div (EntityFloor.reinforcement.main_bars_x - 1)),
          cover + j * ((EntityFloor.width - 2 * cover)
                          \div (EntityFloor.reinforcement.main_bars_y - 1)),
          0>>

OnRing(i, j) ==
    \/ i \in {0, EntityFloor.reinforcement.main_bars_x - 1}
    \/ j \in {0, EntityFloor.reinforcement.main_bars_y - 1}

IsCorner(i, j) ==
    /\ i \in {0, EntityFloor.reinforcement.main_bars_x - 1}
    /\ j \in {0, EntityFloor.reinforcement.main_bars_y - 1}

EntityHas(i, j) ==
    \E k \in 1..Len(column_section.rebar_positions) :
        column_section.rebar_positions[k] = EntityGridPoint(i, j)

\* C18 as claimed: for a rectangular floor with main_bars_x = x >= 2 and
\* main_bars_y = y >= 2, calculate_rebar_positions yields only positions on
\* the outer ring of the x-by-y grid, the 4 corners skipped, and no interior
\* grid position.
C18_Claimed ==
    (EntityDone /\ EntityGrid) =>
        \A i \in 0..(EntityFloor.reinforcement.main_bars_x - 1) :
            \A j \in 0..(EntityFloor.reinforcement.main_bars_y - 1) :
                EntityHas(i, j) => (OnRing(i, j) /\ ~IsCorner(i, j))

\* C18 amended: calculate_rebar_positions yields the positions of every
\* grid pair except the 4 corners, x * y - 4 positions: those of the outer
\* ring without the corners and every interior position; the layout is
\* perimeter-only exactly when x = 2 or y = 2, where no pair is interior.
C18_GridWithoutCorners ==
    (EntityDone /\ EntityGrid) =>
        LET x == EntityFloor.reinforcement.main_bars_x
            y == EntityFloor.reinforcement.main_bars_y
        IN  /\ column_section.exception = "none"
            /\ Len(column_section.rebar_positions) = x * y - 4
            /\ \A i \in 0..(x - 1) : \A j \in 0..(y - 1) :
                  EntityHas(i, j) <=> ~IsCorner(i, j)
            /\ \A k \in 1..Len(column_section.rebar_positions) :
                  \E i \in 0..(x - 1) : \E j \in 0..(y - 1) :
                      column_section.rebar_positions[k] = EntityGridPoint(i, j)
            /\ (\A i \in 0..(x - 1) : \A j \in 0..(y - 1) :
                    EntityHas(i, j) => OnRing(i, j))
                  <=> (x = 2 \/ y = 2)

C18_Witness ==
    /\ EntityDone
    /\ EntityFloor.length = 400 * Scale
    /\ EntityFloor.width = 300 * Scale
    /\ ~EntityFloor.reinforcement.is_none
    /\ EntityFloor.reinforcement.main_bars_x = 3
    /\ EntityFloor.reinforcement.main_bars_y = 3
    /\ column_section.rebar_positions
          = << <<25 * Scale, 150 * Scale, 0>>, <<200 * Scale, 25 * Scale, 0>>,
               <<200 * Scale, 150 * Scale, 0>>, <<200 * Scale, 275 * Scale, 0>>,
               <<375 * Scale, 150 * Scale, 0>> >>

(***************************************************************************)
(* Properties of the main bars and the laps (SpecDetail).                  *)
(***************************************************************************)
LayoutDone == pc = "layout"

\* The X coordinates of a list of (x, start_y, end_y, diameter) bars.
BarXs(bars) == [k \in 1..Len(bars) |-> bars[k][1]]

\* The main bars of a one-floor column are at the interpolation points
\* left + cover + i * ((right - left) - 2 * cover) / (n - 1): the two edge
\* bars first (i = 0 and i = n - 1), then i = 1 .. n - 2.
InterpolatedBars ==
    LET n == floors[1].rebar_amount_x
        left == geometry.column_boundaries[1][1]
        right == geometry.column_boundaries[1][2]
        cover == settings.concrete_cover
        xs == BarXs(layout.main_bars)
    IN  /\ Len(xs) = n
        /\ xs[1] = left + cover
        /\ xs[2] = right - cover
        /\ \A i \in 1..(n - 2) :
              (xs[2 + i] - left - cover) * (n - 1) = i * ((right - left) - 2 * cover)

\* The bars after the two edge bars lie strictly between the edge bars.
StrictlyBetweenEdges ==
    LET xs == BarXs(layout.main_bars)
    IN  \A k \in 3..Len(xs) : xs[1] < xs[k] /\ xs[k] < xs[2]

TwoEdgeBars ==
    LET left == geometry.column_boundaries[1][1]
        right == geometry.column_boundaries[1][2]
    IN  BarXs(layout.main_bars)
            = <<left + settings.concrete_cover, right - settings.concrete_cover>>

\* C19 as claimed: for every floor with rebar_amount_x = n >= 2 and boundary
\* (left, right), _calculate_main_bars yields exactly n bars at
\* left + cover + i * ((right - left) - 2 * cover) / (n - 1), i = 0..n-1: the
\* two edge bars at left + cover and right - cover and the other n - 2 bars
\* evenly spaced strictly between them; for n <= 2 exactly the two edge bars.
C19_Claimed ==
    (LayoutDone /\ Len(floors) = 1) =>
        /\ floors[1].rebar_amount_x >= 2 => (InterpolatedBars /\ StrictlyBetweenEdges)
        /\ floors[1].rebar_amount_x <= 2 => TwoEdgeBars

\* C19 amended: the n bars are at the interpolation points for every such
\* floor, and the n - 2 bars after the edge bars lie strictly between the
\* edge bars when the column is longer than twice the cover
\* (right - left > 2 * cover); for n <= 2 exactly the two edge bars.
C19_MainBars ==
    (LayoutDone /\ Len(floors) = 1) =>
        /\ floors[1].rebar_amount_x >= 2 =>
              /\ InterpolatedBars
              /\ floors[1].column_length > 2 * settings.concrete_cover =>
                    StrictlyBetweenEdges
        /\ floors[1].rebar_amount_x <= 2 => TwoEdgeBars

C19_Witness ==
    /\ LayoutDone /\ Len(floors) = 1
    /\ floors[1].rebar_amount_x = 4
    /\ floors[1].column_length = 48
    /\ settings.concrete_cover = 6
    /\ base_point[1] = 10
    /\ BarXs(layout.main_bars) = <<-8, 28, 4, 16>>

\* The base of floor i + 1: the level the geometry gives it.
BaseOfFloor(i) == geometry.floor_levels[i]

\* C20: calculate_rebar_layout returns one lap descriptor for each floor
\* except the top one (len(floors) - 1 of them for a column with floors,
\* none for a single-floor column), in bottom-to-top order; the descriptor
\* of floor i has y_position = (base of floor i + 1) - beam_depth / 2,
\* length = max(40 * d_i, 300) and diameter d_i = floors[i].rebar_diameter.
C20_LapDescriptors ==
    LayoutDone =>
        /\ Len(floors) >= 1 => Len(layout.lap_lengths) = Len(floors) - 1
        /\ Len(floors) <= 1 => layout.lap_lengths = <<>>
        /\ \A i \in 1..Len(layout.lap_lengths) :
              LET d == floors[i].rebar_diameter
              IN  /\ 2 * layout.lap_lengths[i][1]
                        = 2 * BaseOfFloor(i + 1) - settings.beam_depth
                  /\ layout.lap_lengths[i][2]
                        = (IF 40 * d >= 300 * Scale THEN 40 * d ELSE 300 * Scale)
                  /\ layout.lap_lengths[i][3] = d
        /\ \A i \in 1..(Len(layout.lap_lengths) - 1) :
              layout.lap_lengths[i][1] < layout.lap_lengths[i + 1][1]

C20_Witness ==
    /\ LayoutDone /\ Len(floors) = 3
    /\ settings.beam_depth = Scale
    /\ base_point[2] = -5
    /\ floors[1].total_height = 2 * Scale /\ floors[2].total_height = Scale
    /\ floors[1].rebar_diameter = 20 * Scale /\ floors[2].rebar_diameter = 6 * Scale
    /\ layout.lap_lengths
          = << <<-5 + 2 * Scale - 3, 800 * Scale, 20 * Scale>>,
               <<-5 + 3 * Scale - 3, 300 * Scale, 6 * Scale>> >>

(***************************************************************************)
(* Property of the application (SpecApp).                                  *)
(***************************************************************************)
\* C14: in every run of the application, the calculator
\* (calculate_column_geometry, calculate_rebar_layout,
\* calculate_section_dimensions) is invoked for a column only after a
\* validation of that column has completed with is_valid = true.
C14_ValidatedBeforeCalculation ==
    \A call \in calls : call.validated

\* A run in which a column whose floor is 1000 mm high, and whose
\* validation raised, is handed to the calculator.
C14_UnvalidatedCalculation ==
    /\ pc = "app"
    /\ app.column_data = <<AppColumn(<<LowAppFloor>>)>>
    /\ app.validation_results = <<>>
    /\ \E call \in calls :
          /\ call.op = "calculate_column_geometry"
          /\ call.column = AppColumn(<<LowAppFloor>>)
          /\ ~call.validated

ThirdHeight == (FloorHeight - BeamDepth) \div 3

\* The zone a Y lies in, by position: 1 below base + third, 2 below
\* base + 2 * third, 3 above.
ZoneOf(y) ==
    IF y < FloorBase + ThirdHeight THEN 1
    ELSE IF y < FloorBase + 2 * ThirdHeight THEN 2 ELSE 3

ZoneStart(z) == FloorBase + (z - 1) * ThirdHeight

ZoneSpacing(z) ==
    IF z = 2 THEN floors[1].mid_stirrup_spacing ELSE floors[1].edge_stirrup_spacing

ZoneLabel(z) == IF z = 2 THEN "mid" ELSE "edge"

\* The stirrups of the list that lie in the same zone as stirrup k and come
\* before it.
EarlierInZone(k) ==
    {j \in 1..(k - 1) : ZoneOf(stirrups[j][1]) = ZoneOf(stirrups[k][1])}

\* C21: within one floor with third = (height - beam_depth) / 3 > 0 and
\* positive spacings, the first stirrup of each zone is exactly one
\* zone-spacing above the zone's start (base, base + third,
\* base + 2 * third), consecutive stirrups of the same zone differ by
\* exactly that zone's spacing, the label is 'edge' in the bottom and top
\* zones and 'mid' in the middle zone, and no stirrup is placed exactly at
\* base, base + third or base + 2 * third.
C21_ZoneSteps ==
    (StirrupsDone /\ ThirdHeight > 0) =>
        \A k \in 1..Len(stirrups) :
            LET y == stirrups[k][1]
                z == ZoneOf(y)
            IN  /\ y \notin {ZoneStart(1), ZoneStart(2), ZoneStart(3)}
                /\ stirrups[k][2] = ZoneLabel(z)
                /\ EarlierInZone(k) = {} => y = ZoneStart(z) + ZoneSpacing(z)
                /\ EarlierInZone(k) # {} =>
                      /\ k - 1 \in EarlierInZone(k)
                      /\ y - stirrups[k - 1][1] = ZoneSpacing(z)

\* A floor whose three zones all hold at least two stirrups, with
\* different edge and mid spacings and a beam.
C21_Witness ==
    /\ StirrupsDone /\ ThirdHeight > 0
    /\ BeamDepth > 0
    /\ floors[1].edge_stirrup_spacing # floors[1].mid_stirrup_spacing
    /\ \A z \in 1..3 :
          \E j \in 1..Len(stirrups) : \E k \in 1..Len(stirrups) :
              /\ j < k
              /\ ZoneOf(stirrups[j][1]) = z /\ ZoneOf(stirrups[k][1]) = z

(***************************************************************************)
(* Properties of the flat sequences of the layout (Spec).                  *)
(***************************************************************************)
\* The number of main bars one floor contributes: the two edge bars and
\* rebar_amount_x - 2 intermediate bars when rebar_amount_x > 2.
BarCount(floor) == IF floor.rebar_amount_x > 2 THEN floor.rebar_amount_x ELSE 2

\* The number of main bars the floors below floor i contribute.
RECURSIVE BarsBelow(_)
BarsBelow(i) == IF i <= 1 THEN 0 ELSE BarsBelow(i - 1) + BarCount(floors[i - 1])

\* C22: when geometry is the result of calculate_column_geometry for the
\* same floors, calculate_rebar_layout lists the main bars floor by floor
\* from bottom to top; every main bar of floor i has
\* start_y = geometry.floor_levels[i] and end_y = geometry.floor_levels[i+1],
\* so the bars of adjacent floors meet at the shared level; the bars of all
\* floors are kept, the total being the sum of the per-floor counts.
C22_BarsPerFloor ==
    LayoutDone =>
        /\ Len(layout.main_bars) = BarsBelow(Len(floors) + 1)
        /\ \A i \in 1..Len(floors) :
              \A k \in (BarsBelow(i) + 1)..BarsBelow(i + 1) :
                  /\ layout.main_bars[k][2] = geometry.floor_levels[i]
                  /\ layout.main_bars[k][3] = geometry.floor_levels[i + 1]
                  /\ layout.main_bars[k][4] = floors[i].rebar_diameter

\* Two floors of differing heights, bar counts and diameters above a base
\* other than 0: five bars, the bars of the two floors meeting at one level.
C22_Witness ==
    /\ LayoutDone /\ Len(floors) = 2
    /\ base_point[2] = -5
    /\ floors[1].total_height = 2 * Scale /\ floors[2].total_height = Scale
    /\ floors[1].rebar_amount_x = 3 /\ floors[2].rebar_amount_x = 2
    /\ floors[1].rebar_diameter # floors[2].rebar_diameter
    /\ Len(layout.main_bars) = 5
    /\ layout.main_bars[3][3] = -5 + 2 * Scale
    /\ layout.main_bars[4][2] = -5 + 2 * Scale
    /\ layout.main_bars[5][3] = -5 + 3 * Scale

\* The floors C23 speaks of: positive height and spacings (every spacing of
\* the model is positive) and 0 <= beam_depth < height.
SoundFloor == FloorHeight > 0 /\ BeamDepth >= 0 /\ BeamDepth < FloorHeight

\* The distance from the stirrup before stirrup k, or from the floor base
\* for the first stirrup, to stirrup k.
StirrupGap(k) ==
    stirrups[k][1] - (IF k = 1 THEN FloorBase ELSE stirrups[k - 1][1])

MaxSpacing == Max(floors[1].edge_stirrup_spacing, floors[1].mid_stirrup_spacing)

\* C23 as claimed: within every floor (positive height and spacings,
\* 0 <= beam_depth < height) the distance between the floor base and the
\* first stirrup, and between any two consecutive stirrups, never exceeds
\* max(edge_stirrup_spacing, mid_stirrup_spacing), zone boundaries included.
C23_Claimed ==
    (StirrupsDone /\ SoundFloor) =>
        \A k \in 1..Len(stirrups) : StirrupGap(k) <= MaxSpacing

\* C23 amended: within every such floor the stirrups ascend, and the
\* distance between the floor base and the first stirrup, and between any
\* two consecutive stirrups, never exceeds
\* 2 * edge_stirrup_spacing + mid_stirrup_spacing; between two consecutive
\* stirrups of the same zone it is that zone's spacing, and between the last
\* stirrup of a zone and the first of the next zone it never exceeds
\* edge_stirrup_spacing + mid_stirrup_spacing.
C23_MaxGap ==
    (StirrupsDone /\ SoundFloor) =>
        \A k \in 1..Len(stirrups) :
            /\ StirrupGap(k) > 0
            /\ StirrupGap(k) <= 2 * floors[1].edge_stirrup_spacing
                                    + floors[1].mid_stirrup_spacing
            /\ k > 1 =>
                  LET z == ZoneOf(stirrups[k][1])
                      before == ZoneOf(stirrups[k - 1][1])
                  IN  /\ before = z => StirrupGap(k) = ZoneSpacing(z)
                      /\ before + 1 = z =>
                            StirrupGap(k) <= floors[1].edge_stirrup_spacing
                                                + floors[1].mid_stirrup_spacing

\* The scenario floor: the last stirrup of the bottom zone is at 800, the
\* first of the middle zone at 833.33 + 150, which is more than 150 above.
C23_Witness ==
    /\ StirrupsDone /\ SoundFloor
    /\ floors = <<ScenarioFloor>> /\ settings = ScenarioSettings
    /\ \E k \in 2..Len(stirrups) :
          /\ stirrups[k - 1][1] = 800 * Scale
          /\ stirrups[k - 1][2] = "edge"
          /\ stirrups[k][2] = "mid"
          /\ 3 * stirrups[k][1] = (2500 + 3 * 150) * Scale
          /\ StirrupGap(k) > MaxSpacing

\* The columns C24 speaks of: positive heights (every spacing of the model
\* is positive) and 0 <= beam_depth <= each floor height.
SoundColumn ==
    /\ settings.beam_depth >= 0
    /\ \A i \in 1..Len(floors) :
          /\ floors[i].total_height > 0
          /\ settings.beam_depth <= floors[i].total_height

\* The number of stirrups floor i contributes.
StirrupCount(i) ==
    Len(calculate_stirrups(floors[i], geometry.floor_levels[i],
                           floors[i].total_height, settings.beam_depth))

\* The number of stirrups the floors below floor i contribute.
RECURSIVE StirrupsBelow(_)
StirrupsBelow(i) == IF i <= 1 THEN 0 ELSE StirrupsBelow(i - 1) + StirrupCount(i - 1)

\* C24: for every column whose floors have positive heights and spacings
\* and 0 <= beam_depth <= each floor height, the Y values of the flat
\* stirrup_positions sequence returned by calculate_rebar_layout are
\* strictly increasing over the whole column: no two stirrups share a Y, and
\* every stirrup of floor i comes before and lies below every stirrup of
\* floor i + 1 (the stirrups of floor i lie above the floor's base level and
\* below the next floor's).
C24_StirrupsAscend ==
    (LayoutDone /\ SoundColumn) =>
        LET ys == StirrupYs(layout.stirrup_positions)
        IN  /\ \A k \in 1..(Len(ys) - 1) : ys[k] < ys[k + 1]
            /\ Len(ys) = StirrupsBelow(Len(floors) + 1)
            /\ \A i \in 1..Len(floors) :
                  \A k \in (StirrupsBelow(i) + 1)..StirrupsBelow(i + 1) :
                      /\ geometry.floor_levels[i] < ys[k]
                      /\ ys[k] < geometry.floor_levels[i + 1]

\* Two floors of heights 12 and 6 above the base -5 under a beam of depth
\* 6: three stirrups in the first floor, two in the second.
C24_Witness ==
    /\ LayoutDone /\ SoundColumn
    /\ Len(floors) = 2
    /\ base_point[2] = -5
    /\ settings.beam_depth = Scale
    /\ floors[1].total_height = 2 * Scale /\ floors[2].total_height = Scale
    /\ StirrupYs(layout.stirrup_positions) = <<1, 3, 5, 9, 11>>

(***************************************************************************)
(* Properties of what the validation lets through (SpecValid).             *)
(***************************************************************************)
Accepted == ValidationDone /\ validation.is_valid

\* C25: every column that validate_column_data accepts (is_valid = true)
\* has a strictly positive usable height on every floor:
\* settings.beam_depth < floor.total_height for each floor.
C25_PositiveUsableHeight ==
    Accepted =>
        \A i \in 1..Len(floors) : settings.beam_depth < floors[i].total_height

\* A beam depth of 2500 and a floor height of 2000, both inside the one
\* range 2000..50000 they are checked against, are accepted.
C25_BeamAboveFloor ==
    /\ Accepted
    /\ settings = SettingsDict(2500, 25)
    /\ floors = <<[SoundFloorDict EXCEPT !.total_height = 2000]>>
    /\ validation.errors = <<>>

(***************************************************************************)
(* Termination of calculate_rebar_layout on accepted columns (LiveLoop).   *)
(***************************************************************************)
\* C26: for every column that validate_column_data accepts (is_valid =
\* true, with any warnings), calculate_rebar_layout terminates: each of the
\* three stirrup loops of every floor finishes after finitely many
\* additions of the floor's edge or mid stirrup spacing.
C26_Terminates ==
    (pc = "validate" /\ done = {"validate_column_data"} /\ validation.is_valid)
        ~> (pc = "returned")

\* An accepted floor with edge_stirrup_spacing = 0 in the bottom loop:
\* current_y is still the floor's base after MaxStirrups iterations.
C26_EndlessBottomLoop ==
    /\ pc = "bottom"
    /\ validation.is_valid
    /\ floors[frame.i].edge_stirrup_spacing = 0
    /\ FrameThird > 0
    /\ Len(stirrups) = MaxStirrups
    /\ frame.current_y = frame.floor_y

(***************************************************************************)
(* Agreement of the elevation and the section of one floor (SpecAgree).    *)
(***************************************************************************)
\* The offsets of the main bars from the floor's left boundary.
ElevationOffsets ==
    {layout.main_bars[k][1] - geometry.column_boundaries[1][1] :
        k \in 1..Len(layout.main_bars)}

\* The distinct X coordinates of the section's bar positions.
SectionXs == {section.rebar_positions[k][1] : k \in 1..Len(section.rebar_positions)}

\* C27: the elevation and the section of the same rectangular floor agree
\* on bar placement for every concrete_cover setting: the offsets of the
\* floor's main bars from its left boundary computed by
\* calculate_rebar_layout form the same set as the distinct X coordinates
\* of the section grid computed by calculate_section_dimensions.
C27_ElevationMatchesSection ==
    (pc = "drawn" /\ floors[1].column_width > 0) =>
        /\ section.exception = "none"
        /\ ElevationOffsets = SectionXs

\* Cover 40 mm, three bars along a 400 mm length: the elevation puts them
\* 40, 200 and 360 from the left boundary, the section at 25, 200 and 375.
C27_CoverSettingIgnored ==
    /\ pc = "drawn"
    /\ settings.concrete_cover = 40 * Scale
    /\ floors[1].column_length = 400 * Scale
    /\ floors[1].rebar_amount_x = 3
    /\ section.exception = "none"
    /\ ElevationOffsets = {40 * Scale, 200 * Scale, 360 * Scale}
    /\ SectionXs = {25 * Scale, 200 * Scale, 375 * Scale}

(***************************************************************************)
(* Property of the drawing contexts (SpecLayer).                           *)
(***************************************************************************)
\* C28: while AutoCAD stays connected, the document's active layer after a
\* `with DrawingContext(manager, layer)` block ends, normally or by an
\* exception raised inside the block, is the layer that was active just
\* before the block was entered; so after draw_column_elevation (or
\* draw_column_sections) returns, True or False, the active layer is the
\* one that was active before the call.
C28_LayerRestored ==
    autocad.connected =>
        /\ pc = "left" => autocad.active_layer = frame.entered_from
        /\ pc = "returned" => autocad.active_layer = frame.called_from

\* A block entered from the user's layer WALLS has ended by an exception
\* after an earlier block ended normally, and the draw call has returned
\* False with WALLS active.
C28_Witness ==
    /\ pc = "returned"
    /\ autocad.connected
    /\ frame.raised /\ ~frame.result
    /\ frame.called_from = "WALLS"
    /\ autocad.context.layer = "REBAR"
    /\ autocad.context.original_layer = "WALLS"
    /\ autocad.active_layer = "WALLS"

(***************************************************************************)
(* Property of the Draw Sections command (SpecApp).                        *)
(***************************************************************************)
\* The number of floors of the loaded columns.
RECURSIVE TotalFloors(_)
TotalFloors(columns) ==
    IF columns = <<>> THEN 0 ELSE Len(Head(columns).floors) + TotalFloors(Tail(columns))

\* Every floor of the loaded columns has a section that can be calculated.
AllSectionsSound ==
    \A i \in 1..Len(app.column_data) :
        \A k \in 1..Len(app.column_data[i].floors) :
            calculate_section_dimensions(app.column_data[i].floors[k], 1).exception = "none"

\* C29: one execution of the draw-sections command on loaded data draws
\* exactly one cross-section per floor of each column: the number of calls
\* to _draw_single_section equals the total number of floors over all
\* loaded columns.
C29_OneSectionPerFloor ==
    (pc = "app" /\ app.message = "sections_drawn") =>
        autocad.sections = TotalFloors(app.column_data)

\* One column of two sound floors is loaded and every draw succeeds: four
\* _draw_single_section calls for two floors.
C29_SectionsDrawnTwice ==
    /\ pc = "app" /\ app.message = "sections_drawn"
    /\ app.column_data = <<AppColumn(<<SoundAppFloor, SoundAppFloor>>)>>
    /\ AllSectionsSound
    /\ \A k \in 1..2 :
          \E call \in calls :
              /\ call.op = "calculate_section_dimensions"
              /\ call.column = app.column_data[1]
              /\ call.arg = <<k>>
    /\ autocad.sections = 4

(***************************************************************************)
(* Property of StirrupLayout.get_spacing_at_height (SpecFloor).            *)
(***************************************************************************)
PositionsDone == pc = "floor" /\ "calculate_positions" \in done

\* The number of positions the bottom loop and the middle loop of
\* calculate_positions append: they come first in self.positions.
BottomPositions ==
    Len(PositionsZoneLoop(FloorBase + stirrup_layout.edge_spacing,
                          FloorBase + ThirdHeight,
                          stirrup_layout.edge_spacing, <<>>))

MiddlePositions ==
    Len(PositionsZoneLoop(FloorBase + ThirdHeight + stirrup_layout.mid_spacing,
                          FloorBase + 2 * ThirdHeight,
                          stirrup_layout.mid_spacing, <<>>))

\* The spacing of the loop that appended position k.
GeneratingSpacing(k) ==
    IF k <= BottomPositions THEN stirrup_layout.edge_spacing
    ELSE IF k <= BottomPositions + MiddlePositions THEN stirrup_layout.mid_spacing
    ELSE stirrup_layout.edge_spacing

SpacingAgreesAt(k) ==
    get_spacing_at_height(stirrup_layout, stirrup_layout.positions[k],
                          FloorBase, FloorHeight) = GeneratingSpacing(k)

\* C30: get_spacing_at_height agrees with calculate_positions: for every
\* beam_depth >= 0 and every position y that calculate_positions(start_y,
\* height, beam_depth) produced, get_spacing_at_height(y, start_y, height)
\* returns the spacing (edge or mid) of the zone that generated y.
C30_SpacingAgrees ==
    PositionsDone =>
        \A k \in 1..Len(stirrup_layout.positions) : SpacingAgreesAt(k)

\* The scenario floor (height 3000, beam depth 500, edge 100, mid 150): the
\* first position of the middle zone, 983.33, is given the edge spacing and
\* the first of the top zone, 1766.67, the mid spacing.
C30_ScenarioDisagrees ==
    /\ PositionsDone
    /\ floors = <<ScenarioFloor>>
    /\ settings = ScenarioSettings
    /\ BottomPositions = 8 /\ MiddlePositions = 5
    /\ get_spacing_at_height(stirrup_layout, stirrup_layout.positions[9],
                             FloorBase, FloorHeight) = 100 * Scale
    /\ get_spacing_at_height(stirrup_layout, stirrup_layout.positions[14],
                             FloorBase, FloorHeight) = 150 * Scale

\* Without a beam the thirds of the two methods coincide and they agree.
C30_AgreesWithoutBeam ==
    (PositionsDone /\ BeamDepth = 0) =>
        \A k \in 1..Len(stirrup_layout.positions) : SpacingAgreesAt(k)

\* A floor without beam whose three zones all have positions, with
\* different edge and mid spacings.
C30_WithoutBeamWitness ==
    /\ PositionsDone
    /\ BeamDepth = 0
    /\ stirrup_layout.edge_spacing # stirrup_layout.mid_spacing
    /\ BottomPositions > 0 /\ MiddlePositions > 0
    /\ Len(stirrup_layout.positions) > BottomPositions + MiddlePositions

=============================================================================
